---- MODULE Spec2Model ----
(***************************************************************************)
(* kpi-uploader: a state-machine model of the run orchestration, the       *)
(* coordinate caches, the value reconciler and the write retrier of        *)
(* main.go (the datapoint-capable revision, with the column buffer), and   *)
(* of the legacy fixed-position KPI mode.                                  *)
(*                                                                         *)
(* The remote spreadsheet is the variable `sheet`; every Get and Update    *)
(* the program issues is appended to the history variables `reads` and     *)
(* `updates`, every writeSheetCell call to `calls`.  logit.Fatal ends the  *)
(* process (pc = "fatal"); a Go run-time panic ends it too (pc = "panic"). *)
(***************************************************************************)
EXTENDS Integers, Sequences, FiniteSets, TLC

VARIABLES
    pc,                 \* position of the single thread of main()
    sheet,              \* the remote grid: column label -> row -> cell
    reads,              \* history: the ranges read with Values.Get
    updates,            \* history: the Values.Update calls issued
    \* ---- legacy mode (updateGoogleSheetKPI)
    cfgKPI,             \* cfg.KPI: number of configured KPIs, -1 for nil
    ki,                 \* index of the KPI the loop is at
    kpi,                \* the KPI descriptor of this iteration
    out,                \* the scraped value of this iteration
    dataWeekColLetter,  \* column of the current week
    syncCount,          \* the run tally, by errorCode
    calls,              \* history: the writeSheetCell calls and their results
    \* ---- generic mode (updateGoogleSheetValues)
    cfgDatapoints,      \* len(cfg.Datapoints)
    di,                 \* index of the datapoint the loop is at
    dp,                 \* the datapoint descriptor of this iteration
    topicCache,         \* topic -> column letter
    keyCache,           \* key -> row number
    keyCacheArr,        \* key -> the row numbers recorded for it
    keyCacheMax,        \* the max-row tracker
    sheetValues,        \* the in-memory column buffer
    nrec,               \* records of this datapoint reconciled so far
    iterations,         \* the retry loop's counter
    tries,              \* history of this persist: n Update calls, oks of them
                        \* without error, okAt/hardAt the first call without
                        \* error / with a non-transient error (0 for none)
    sleeps,             \* history: backoff sleeps of this persist
    failBudget,         \* failures the remote grid may still produce
    indexed,            \* history: the last indexing of the buffer by a
                        \* cached row, <<offset, length>>
    rec,                \* history: the record the callback ran on last for
                        \* this datapoint, what became of it, and the last
                        \* val of each cached key among the records so far
    \* ---- column-letter codec (clmconv), called on its own
    codec               \* the call: argument, result and how far it got

legacyVars  == <<cfgKPI, ki, kpi, out, dataWeekColLetter, syncCount, calls>>
genericVars == <<cfgDatapoints, di, dp, topicCache, keyCache, keyCacheArr,
                 keyCacheMax, sheetValues, nrec, iterations, tries, sleeps,
                 failBudget, indexed, rec>>
vars == <<pc, sheet, reads, updates, legacyVars, genericVars, codec>>

----------------------------------------------------------------------------
(* Bounds of the model *)

NumCols     == 4    \* columns of the modelled grid, A on
MaxData     == 2    \* data rows a column may hold when the run starts
MaxKPI      == 2    \* KPIs configured in a legacy run
MaxDP       == 2    \* datapoints configured in a generic run
MaxRecords  == 2    \* records one source command emits
MaxFailures == 1    \* failing remote updates in a full generic run
MaxOffset   == 18277 \* largest column offset handed to the codec ("ZZZ")
MaxNegative == 3    \* negative offsets handed to the codec: -1 down to this
MaxLetters  == 3    \* length of the strings handed to the codec's decoder

----------------------------------------------------------------------------
(* Cell values.  The Sheets API hands back strings and numbers; both are   *)
(* tagged so that a string never equals a number, as in Go's comparison    *)
(* of interface values.                                                    *)

Str(s) == [t |-> "s", v |-> s]
Num(n) == [t |-> "n", v |-> n]
Empty  == Str("")

\* fmt.Sprintf("%v", x)
Sprintf(x) == IF x.t = "n" THEN ToString(x.v) ELSE x.v

\* ValueInputOption("USER_ENTERED"): the grid parses what is sent as if it
\* had been typed, so text that reads as a number is stored as a number.
NumericText == [s \in {"0", "7", "8"} |-> CASE s = "0" -> 0 [] s = "7" -> 7 [] s = "8" -> 8]
UserEntered(x) ==
    IF x.t = "s" /\ x.v \in DOMAIN NumericText THEN Num(NumericText[x.v]) ELSE x

----------------------------------------------------------------------------
(* Column-letter codec (clmconv) *)

Letters == <<"A", "B", "C", "D", "E", "F", "G", "H", "I", "J", "K", "L", "M",
             "N", "O", "P", "Q", "R", "S", "T", "U", "V", "W", "X", "Y", "Z">>
pow26tab == <<1, 26, 676, 17576, 456976, 11881376>>

RECURSIVE pow26(_)
pow26(n) == IF 0 <= n /\ n <= 5 THEN pow26tab[n + 1] ELSE pow26(n - 1) * 26

RECURSIVE ItoaLoop(_, _, _)
ItoaLoop(i, c, r) ==
    LET mod == (i % pow26(c + 1)) + 1
        r2  == Letters[mod \div pow26(c)] \o r
        i2  == i - mod
    IN  IF i2 <= 0 THEN r2 ELSE ItoaLoop(i2, c + 1, r2)

Itoa(i) == IF i < 0 THEN "" ELSE ItoaLoop(i, 0, "")

\* The characters of the model and their codes: int(c) of a rune.
LowerLetters == <<"a", "b", "c", "d", "e", "f", "g", "h", "i", "j", "k", "l", "m",
                  "n", "o", "p", "q", "r", "s", "t", "u", "v", "w", "x", "y", "z">>
OtherCodes == ("1" :> 49) @@ ("@" :> 64) @@ ("[" :> 91) @@ ("{" :> 123)

Ord(c) ==
    IF \E k \in 1 .. 26 : Letters[k] = c
        THEN 64 + (CHOOSE k \in 1 .. 26 : Letters[k] = c)
    ELSE IF \E k \in 1 .. 26 : LowerLetters[k] = c
        THEN 96 + (CHOOSE k \in 1 .. 26 : LowerLetters[k] = c)
    ELSE OtherCodes[c]

\* if 'A' <= c && c <= 'Z'
IsUpper(c) == 65 <= c /\ c <= 90

\* IsLower for a decoder that knows capital letters only.
IsLowerNever(c) == FALSE

\* else if 'a' <= c && c <= 'z'
IsLower(c) == 97 <= c /\ c <= 122

\* for i, c := range s, from byte index i (0-based) on, with the sum r
RECURSIVE AtoiLoop(_, _, _)
AtoiLoop(s, i, r) ==
    IF i >= Len(s) THEN [n |-> r - 1, err |-> ""]
    ELSE
        LET c == Ord(SubSeq(s, i + 1, i + 1))
        IN  IF IsUpper(c)
                THEN AtoiLoop(s, i + 1, r + (c - 64) * pow26(Len(s) - i - 1))
            ELSE IF IsLower(c)
                THEN AtoiLoop(s, i + 1, r + (c - 96) * pow26(Len(s) - i - 1))
            ELSE [n |-> 0, err |-> "must not contain non-alphabetic characters"]

\* Atoi that returns the sum as it is, A = 1.
AtoiOneBased(s) ==
    IF s = "" THEN [n |-> 0, err |-> "argument is empty string"]
    ELSE LET r == AtoiLoop(s, 0, 0)
         IN  IF r.err # "" THEN r ELSE [r EXCEPT !.n = r.n + 1]

\* Atoi converts alphabet to number: the pair (int, error) it returns.
Atoi(s) ==
    IF s = "" THEN [n |-> 0, err |-> "argument is empty string"] ELSE AtoiLoop(s, 0, 0)

\* A call of the codec on its own: Itoa on the number n, then Atoi on the
\* label s it gave (op "Itoa"), or Atoi on the string s (op "Atoi"). The
\* error is its message, "" for nil.
NoCodec == [op |-> "", n |-> 0, s |-> "", back |-> 0, err |-> "", step |-> 0]

CodecChars == {"A", "B", "Z", "a", "z", "1", "@", "[", "{"}

RECURSIVE StringsUpTo(_)
StringsUpTo(n) ==
    IF n = 0 THEN {""}
    ELSE LET S == StringsUpTo(n - 1)
         IN  S \cup {t \o c : t \in {u \in S : Len(u) = n - 1}, c \in CodecChars}

Codec_Itoa ==
    /\ pc = "codec"
    /\ codec.op = "Itoa"
    /\ codec.step = 0
    /\ codec' = [codec EXCEPT !.s = Itoa(codec.n), !.step = 1]
    /\ UNCHANGED <<pc, sheet, reads, updates, legacyVars, genericVars>>

Codec_Atoi ==
    /\ pc = "codec"
    /\ \/ codec.op = "Itoa" /\ codec.step = 1
       \/ codec.op = "Atoi" /\ codec.step = 0
    /\ LET r == Atoi(codec.s)
       IN  codec' = [codec EXCEPT !.back = r.n, !.err = r.err, !.step = @ + 1]
    /\ UNCHANGED <<pc, sheet, reads, updates, legacyVars, genericVars>>

----------------------------------------------------------------------------
(* Configuration and the remote grid *)

cfg == [SheetLastUpdateCol |-> "A", SheetKeyCol |-> "B",
        SheetTopicRow |-> 1, SheetDataStartRow |-> 2]

Cols == {Itoa(i) : i \in 0 .. NumCols - 1}
Rows == 1 .. MaxData + MaxDP * (MaxRecords + 2) + 4

errorCode == [synced |-> 1, collision |-> 2, failed |-> 3]

\* Trailing empty cells are left out of what Values.Get returns.
RECURSIVE Trim(_)
Trim(s) == IF s = <<>> THEN s
           ELSE IF s[Len(s)] = Empty THEN Trim(SubSeq(s, 1, Len(s) - 1)) ELSE s

\* Values.Get of the row range "A<row>:<row>": resp.Values[0], or no rows
\* at all when the whole row is empty.
GetRow(sh, row) == Trim([i \in 1 .. NumCols |-> sh[Itoa(i - 1)][row]])

\* Values.Get of the one-cell range "<col><row>:<col><row>": resp.Values
GetCell(sh, col, row) ==
    IF sh[col][row] = Empty THEN <<>> ELSE << <<sh[col][row]>> >>

EmptySheet == [c \in Cols |-> [r \in Rows |-> Empty]]

----------------------------------------------------------------------------
(* Coordinate cache: the header row *)

EmptyMap == [x \in {} |-> x]
Put(m, k, v) == [x \in DOMAIN m \cup {k} |-> IF x = k THEN v ELSE m[x]]

\* Values.Get without a render option returns the formatted value: a string.
Formatted(x) == Str(Sprintf(x))

\* CacheTopic without the test for an entry that is already there.
CacheTopicOverwrites(tc, topic, i) ==
    IF topic # Empty THEN Put(tc, Sprintf(topic), Itoa(i)) ELSE tc

\* The caching of one header cell: only a topic that is not in the cache
\* yet, and never "".
CacheTopic(tc, topic, i) ==
    IF Sprintf(topic) \notin DOMAIN tc /\ topic # Empty
        THEN Put(tc, Sprintf(topic), Itoa(i))
        ELSE tc

\* Hit that takes the first cell of the row, whatever it holds.
HitFirstCell(searchFor, topic, offset) == offset = -1

\* if searchFor == topic && offset == -1
Hit(searchFor, topic, offset) == Str(searchFor) = topic /\ offset = -1

\* The loop of cellValueToSheetLetter over resp.Values[0], from index i
\* (0-based colCounter) on; st = [offset, cache].
RECURSIVE LetterLoop(_, _, _, _, _)
LetterLoop(row, i, searchFor, cache, st) ==
    IF i >= Len(row) THEN st
    ELSE
        LET topic == row[i + 1]
            tc1 == IF cache THEN CacheTopic(st.cache, topic, i) ELSE st.cache
            hit == Hit(searchFor, topic, st.offset)
            st1 == [offset |-> IF hit THEN i ELSE st.offset, cache |-> tc1]
        IN  IF hit /\ ~cache THEN st1   \* break
            ELSE LetterLoop(row, i + 1, searchFor, cache, st1)

\* NotFound that forgets the caching run.
NotFoundAlsoWhenCaching(offset, cache) == offset = -1

\* if offset == -1 && !cache: "FIX: Add a new column for topic"
NotFound(offset, cache) == offset = -1 /\ ~cache

\* cellValueToSheetLetter, after the header row was read without error.
cellValueToSheetLetter(sh, tc, searchFor, cache) ==
    LET row == [i \in 1 .. Len(GetRow(sh, cfg.SheetTopicRow)) |->
                    Formatted(GetRow(sh, cfg.SheetTopicRow)[i])]
        st  == LetterLoop(row, 0, searchFor, cache, [offset |-> -1, cache |-> tc])
    IN  IF Len(row) = 0
            THEN [fatal |-> TRUE, letter |-> "", cache |-> tc]
        ELSE IF NotFound(st.offset, cache)
            THEN [fatal |-> TRUE, letter |-> "", cache |-> st.cache]
        ELSE [fatal |-> FALSE, letter |-> Itoa(st.offset), cache |-> st.cache]

TopicRowRange == <<"row", "A", cfg.SheetTopicRow>>

----------------------------------------------------------------------------
(* Legacy mode: updateGoogleSheetKPI *)

nowYearWeek    == "2026-45"
lastUpdateDate == Str("2026-11-03")

Titles  == {"T1", "T2"}
KPIRows == {2, 3}
Sources == {"json", "cmd", "none"}
Outs    == {0, 7}

\* scrapeEndpoint that reports a value for a KPI without a source.
scrapeEndpointNeverSkips(k) ==
    {[fatal |-> FALSE, ok |-> TRUE, out |-> o] : o \in Outs}

\* scrapeEndpoint: the outcomes the sources can produce.  A failing command
\* and a failing HTTP fetch are logit.Fatal; Sscanf leaves 0 when the output
\* holds no number.
scrapeEndpoint(k) ==
    IF k.src = "none" THEN {[fatal |-> FALSE, ok |-> FALSE, out |-> -1]}
    ELSE {[fatal |-> TRUE, ok |-> FALSE, out |-> 0]}
         \cup {[fatal |-> FALSE, ok |-> TRUE, out |-> o] : o \in Outs}

SetCell(sh, col, row, x) == [sh EXCEPT ![col][row] = UserEntered(x)]

\* Collides that takes every filled cell for a collision.
CollidesWhenFilled(respValues, value) ==
    Len(respValues) > 0

\* Collides with the comparison inverted.
CollidesInverted(respValues, value) ==
    Len(respValues) > 0 /\ respValues[1][1] = value

\* The collision test of writeSheetCell on resp.Values and value[0].
Collides(respValues, value) ==
    Len(respValues) > 0 /\ respValues[1][1] # value

\* UpdateReturn with the error only logged, not fatal.
UpdateReturnNotFatal(failed) ==
    IF failed THEN [fatal |-> FALSE, ret |-> errorCode.synced]
              ELSE [fatal |-> FALSE, ret |-> errorCode.failed]

\* The code returned after Values.Update, by whether it gave an error; with
\* an error logit.Fatal ends the process before the return is reached.
UpdateReturn(failed) ==
    IF failed THEN [fatal |-> TRUE,  ret |-> errorCode.synced]
              ELSE [fatal |-> FALSE, ret |-> errorCode.failed]

\* writeSheetCell: every outcome of one call on the grid sh.
writeSheetCell(sh, value, col, row, overwrite) ==
    LET respValues == GetCell(sh, col, row)
        base == [read |-> overwrite = 0, readErr |-> FALSE, update |-> FALSE,
                 updErr |-> FALSE, fatal |-> FALSE, ret |-> 0, sheet |-> sh,
                 seen |-> sh[col][row]]
        readFails == IF overwrite = 0
                        THEN {[base EXCEPT !.readErr = TRUE, !.fatal = TRUE]}
                        ELSE {}
        writes == {[base EXCEPT !.update = TRUE, !.updErr = e,
                                !.fatal = UpdateReturn(e).fatal,
                                !.ret = IF UpdateReturn(e).fatal THEN 0
                                        ELSE UpdateReturn(e).ret,
                                !.sheet = IF e THEN sh
                                          ELSE SetCell(sh, col, row, value)]
                   : e \in BOOLEAN}
    IN  readFails \cup
        (IF overwrite = 0 /\ Collides(respValues, value)
            THEN {[base EXCEPT !.ret = errorCode.collision]}
            ELSE writes)

\* Tally that leaves collisions out of the count.
TallyWithoutCollisions(sc, ret) ==
    IF ret = errorCode.collision THEN sc ELSE [sc EXCEPT ![ret] = @ + 1]

\* syncCount[writeSheetCell(...)]++
Tally(sc, ret) == [sc EXCEPT ![ret] = @ + 1]

\* dataWeekColLetter := cellValueToSheetLetter(cfg, srv, nowYearWeek, false)
KPI_ResolveWeek ==
    /\ pc = "kpi_resolve"
    /\ reads' = Append(reads, TopicRowRange)
    /\ \/ /\ pc' = "fatal"      \* the read fails
          /\ UNCHANGED dataWeekColLetter
       \/ LET r == cellValueToSheetLetter(sheet, EmptyMap, nowYearWeek, FALSE)
          IN  /\ pc' = IF r.fatal THEN "fatal" ELSE "kpi_loop"
              /\ dataWeekColLetter' = r.letter
    /\ UNCHANGED <<codec, sheet, updates, cfgKPI, ki, kpi, out, syncCount, calls, genericVars>>

\* for _, kpi := range cfg.KPI { ok, out := scrapeEndpoint(&kpi) ...
KPI_Scrape ==
    /\ pc = "kpi_loop"
    /\ IF ki > cfgKPI
         THEN /\ pc' = "done"
              /\ UNCHANGED <<ki, kpi, out>>
         ELSE \E t \in Titles, r \in KPIRows, s \in Sources :
                LET k == [Title |-> t, SheetRow |-> r, src |-> s]
                IN  \E o \in scrapeEndpoint(k) :
                      /\ kpi' = k
                      /\ out' = o.out
                      /\ pc' = IF o.fatal THEN "fatal"
                               ELSE IF o.ok THEN "kpi_title" ELSE "kpi_loop"
                      /\ ki' = IF ~o.fatal /\ ~o.ok THEN ki + 1 ELSE ki
    /\ UNCHANGED <<codec, sheet, reads, updates, cfgKPI, dataWeekColLetter, syncCount,
                   calls, genericVars>>

\* KPI_Write for a writeSheetCell that calls Values.Update again when it
\* gave an error.
KPI_WriteRetried(step, value, col, overwrite, nextpc) ==
    /\ pc = step
    /\ \E o \in writeSheetCell(sheet, value, col, kpi.SheetRow, overwrite) :
         /\ sheet' = o.sheet
         /\ reads' = IF o.read THEN Append(reads, <<"cell", col, kpi.SheetRow>>)
                     ELSE reads
         /\ updates' = IF o.update
                         THEN Append(updates, [k |-> ki, what |-> step, col |-> col,
                                               row |-> kpi.SheetRow, val |-> value,
                                               failed |-> o.updErr])
                         ELSE updates
         /\ calls' = Append(calls, [k |-> ki, what |-> step, col |-> col,
                                    row |-> kpi.SheetRow, value |-> value,
                                    overwrite |-> overwrite, seen |-> o.seen,
                                    readErr |-> o.readErr, update |-> o.update,
                                    updErr |-> o.updErr, fatal |-> o.readErr,
                                    ret |-> o.ret])
         /\ syncCount' = IF o.fatal THEN syncCount ELSE Tally(syncCount, o.ret)
         /\ pc' = IF o.updErr THEN step ELSE IF o.fatal THEN "fatal" ELSE nextpc
    /\ ki' = IF step = "kpi_date" /\ pc' = nextpc THEN ki + 1 ELSE ki
    /\ UNCHANGED <<codec, cfgKPI, kpi, out, dataWeekColLetter, genericVars>>

\* One syncCount[writeSheetCell(...)]++ statement of the loop body.
KPI_Write(step, value, col, overwrite, nextpc) ==
    /\ pc = step
    /\ \E o \in writeSheetCell(sheet, value, col, kpi.SheetRow, overwrite) :
         /\ sheet' = o.sheet
         /\ reads' = IF o.read THEN Append(reads, <<"cell", col, kpi.SheetRow>>)
                     ELSE reads
         /\ updates' = IF o.update
                         THEN Append(updates, [k |-> ki, what |-> step, col |-> col,
                                               row |-> kpi.SheetRow, val |-> value,
                                               failed |-> o.updErr])
                         ELSE updates
         /\ calls' = Append(calls, [k |-> ki, what |-> step, col |-> col,
                                    row |-> kpi.SheetRow, value |-> value,
                                    overwrite |-> overwrite, seen |-> o.seen,
                                    readErr |-> o.readErr, update |-> o.update,
                                    updErr |-> o.updErr, fatal |-> o.fatal,
                                    ret |-> o.ret])
         /\ syncCount' = IF o.fatal THEN syncCount ELSE Tally(syncCount, o.ret)
         /\ pc' = IF o.fatal THEN "fatal" ELSE nextpc
    /\ ki' = IF step = "kpi_date" /\ pc' # "fatal" THEN ki + 1 ELSE ki
    /\ UNCHANGED <<codec, cfgKPI, kpi, out, dataWeekColLetter, genericVars>>

KPI_WriteTitle ==
    KPI_Write("kpi_title", Str(kpi.Title), cfg.SheetKeyCol, 0, "kpi_value")

KPI_WriteValue ==
    KPI_Write("kpi_value", Num(out), dataWeekColLetter, 1, "kpi_date")

\* KPI_WriteDate for a program that resolves the week column inside the
\* loop, once per KPI.
KPI_WriteDateThenResolve ==
    KPI_Write("kpi_date", lastUpdateDate, cfg.SheetLastUpdateCol, 1, "kpi_resolve")

KPI_WriteDate ==
    KPI_Write("kpi_date", lastUpdateDate, cfg.SheetLastUpdateCol, 1, "kpi_loop")

\* main for a program that takes the legacy branch only when the list of
\* KPIs holds an entry.
mainByEntries ==
    /\ pc = "main"
    /\ pc' = IF cfgKPI > 0 THEN "kpi_resolve" ELSE "dp_loop"
    /\ UNCHANGED <<codec, sheet, reads, updates, legacyVars, genericVars>>

\* main: if cfg.KPI != nil { updateGoogleSheetKPI } else { updateGoogleSheetValues }
main ==
    /\ pc = "main"
    /\ pc' = IF cfgKPI # -1 THEN "kpi_resolve" ELSE "dp_loop"
    /\ UNCHANGED <<codec, sheet, reads, updates, legacyVars, genericVars>>

----------------------------------------------------------------------------
(* Coordinate cache: the key column *)

Max(a, b) == IF a > b THEN a ELSE b

\* The last row of a column that holds anything, 0 for an empty column.
LastRow(sh, col) ==
    LET used == {r \in Rows : sh[col][r] # Empty}
    IN  IF used = {} THEN 0 ELSE CHOOSE r \in used : \A q \in used : q <= r

\* Values.Get of the open column range "<col><start>:<col>": one row per
\* sheet row down to the last one that holds a value, a row without cells
\* for an empty cell.  raw is ValueRenderOption("UNFORMATTED_VALUE").
GetCol(sh, col, start, raw) ==
    [i \in 1 .. Max(0, LastRow(sh, col) - start + 1) |->
        LET x == sh[col][start + i - 1]
        IN  IF x = Empty THEN <<>> ELSE IF raw THEN <<x>> ELSE <<Formatted(x)>>]

\* Fresh that takes every occurrence of a key for a new one.
FreshEveryTime(kc, key) == TRUE

\* if _, ok := keyCache[key]; !ok
Fresh(kc, key) == key \notin DOMAIN kc

\* The loop of cellValueToSheetRow over resp.Values, from index i (0-based
\* rowCounter) on; st = [offset, keyCache, keyCacheArr, keyCacheMax].
RECURSIVE RowLoop(_, _, _, _, _, _)
RowLoop(values, i, MatchAll, searchFor, cache, st) ==
    IF i >= Len(values) THEN st
    ELSE
        LET row   == values[i + 1]
            key   == Sprintf(row[1])
            rowNo == cfg.SheetDataStartRow + i
            fresh == cache /\ Len(row) > 0 /\ Fresh(st.keyCache, key)
            kc1   == IF fresh THEN Put(st.keyCache, key, rowNo) ELSE st.keyCache
            max1  == IF fresh /\ st.keyCacheMax < i THEN i ELSE st.keyCacheMax
            arr1  == IF cache /\ Len(row) > 0 /\ MatchAll = "yes"
                        THEN Put(st.keyCacheArr, key,
                                 Append(IF key \in DOMAIN st.keyCacheArr
                                            THEN st.keyCacheArr[key] ELSE <<>>, rowNo))
                        ELSE st.keyCacheArr
            hit   == Len(row) > 0 /\ Str(searchFor) = row[1] /\ st.offset = -1
            st1   == [offset |-> IF hit THEN i ELSE st.offset, keyCache |-> kc1,
                      keyCacheArr |-> arr1, keyCacheMax |-> max1]
        IN  IF hit /\ ~cache THEN st1   \* break
            ELSE RowLoop(values, i + 1, MatchAll, searchFor, cache, st1)

\* The value keyCacheMax is given on entry to a caching scan.
RescanStart(kc, kmax) == Cardinality(DOMAIN kc)

\* cellValueToSheetRow, after the key column was read without error.
cellValueToSheetRow(sh, kc, arr, kmax, SheetKeyCol, MatchAll, searchFor, cache) ==
    LET values == GetCol(sh, SheetKeyCol, cfg.SheetDataStartRow, FALSE)
        max0   == IF cache THEN RescanStart(kc, kmax) ELSE kmax
        st0    == [offset |-> -1, keyCache |-> kc, keyCacheArr |-> arr,
                   keyCacheMax |-> max0]
        st     == RowLoop(values, 0, MatchAll, searchFor, cache, st0)
    IN  [fatal |-> Len(values) = 0 \/ (st.offset = -1 /\ ~cache),
         row |-> cfg.SheetDataStartRow + st.offset,
         keyCache |-> IF Len(values) = 0 THEN kc ELSE st.keyCache,
         keyCacheArr |-> IF Len(values) = 0 THEN arr ELSE st.keyCacheArr,
         keyCacheMax |-> IF Len(values) = 0 THEN max0 ELSE st.keyCacheMax]

----------------------------------------------------------------------------
(* Value reconciler: the column buffer *)

\* The test that decides whether the fetched column is extended.
NeedsPadding(len, kmax) == len < kmax

\* The extension of sheetValues to keyCacheMax + 1 rows of [""].
PadBuffer(sv, kmax) ==
    IF NeedsPadding(Len(sv), kmax)
        THEN [i \in 1 .. kmax + 1 |-> IF i <= Len(sv) THEN sv[i] ELSE <<Empty>>]
        ELSE sv

\* The cell values of a buffer: a row without cells reads as the empty cell.
CellAt(sv, n) == IF Len(sv[n + 1]) = 0 THEN Empty ELSE sv[n + 1][1]
CellsOf(sv) == [i \in 1 .. Len(sv) |-> CellAt(sv, i - 1)]

\* SetIfDiffers that fills empty cells only.
SetIfEmpty(sv, n, val) ==
    LET cur == IF Len(sv[n + 1]) = 0 THEN Empty ELSE sv[n + 1][1]
    IN  [sv EXCEPT ![n + 1] = IF cur = Empty THEN <<Str(val)>> ELSE <<cur>>]

\* if len(sheetValues[n]) == 0 { sheetValues[n] = [""] }, then the compare
\* of val with the string form of the cell, and the overwrite (n is 0-based).
SetIfDiffers(sv, n, val) ==
    LET cur == IF Len(sv[n + 1]) = 0 THEN Empty ELSE sv[n + 1][1]
    IN  [sv EXCEPT ![n + 1] = IF val # Sprintf(cur) THEN <<Str(val)>> ELSE <<cur>>]

\* The inner loop of the match-all branch: rows appended until index n exists.
RECURSIVE ExtendTo(_, _, _)
ExtendTo(sv, n, val) ==
    IF Len(sv) <= n THEN ExtendTo(Append(sv, <<Str(val)>>), n, val) ELSE sv

\* for _, rowNum := range keyCacheArr[key], from position j on;
\* st = [sheetValues, keyCacheMax].
RECURSIVE MatchAllLoop(_, _, _, _)
MatchAllLoop(rowNums, j, val, st) ==
    IF j > Len(rowNums) THEN st
    ELSE
        LET n   == rowNums[j] - cfg.SheetDataStartRow
            sv1 == ExtendTo(st.sheetValues, n, val)
            max1 == IF Len(st.sheetValues) <= n THEN Len(sv1) - 1 ELSE st.keyCacheMax
        IN  MatchAllLoop(rowNums, j + 1, val,
                         [sheetValues |-> SetIfDiffers(sv1, n, val), keyCacheMax |-> max1])

\* AllowsAppend for a program that appends whatever the datapoint says.
AllowsAppendAlways(d) == TRUE

\* if dp.AddRows == "yes"
AllowsAppend(d) == d.AddRows = "yes"

\* IsKeyColumn for a program that never takes the column for the key column.
IsKeyColumnNever(col) == FALSE

\* IsKeyColumn for a program that caches the appended value for any column.
IsKeyColumnAlways(col) == TRUE

\* if topicCache[dp.Title] == cfg.SheetKeyCol
IsKeyColumn(col) == col = cfg.SheetKeyCol

\* The body of the gjson.ForEachLine callback for one record (key, val) of
\* datapoint d, on st = [sheetValues, keyCache, keyCacheArr, keyCacheMax].
\* The result adds: panic (index out of range), indexed (the indexing of
\* the buffer by the cached row, <<offset, length>>), outcome.
Reconcile(d, col, key, val, st) ==
    LET base == [sheetValues |-> st.sheetValues, keyCache |-> st.keyCache,
                 keyCacheArr |-> st.keyCacheArr, keyCacheMax |-> st.keyCacheMax,
                 panic |-> FALSE, indexed |-> <<>>, outcome |-> "skipped"]
    IN  IF key \in DOMAIN st.keyCache
        THEN
            LET n == st.keyCache[key] - cfg.SheetDataStartRow
                at == <<n, Len(st.sheetValues)>>
            IN  IF n >= Len(st.sheetValues)
                THEN [base EXCEPT !.panic = TRUE, !.indexed = at, !.outcome = "panic"]
                ELSE
                    LET sv1 == SetIfDiffers(st.sheetValues, n, val)
                        rowNums == IF key \in DOMAIN st.keyCacheArr
                                      THEN st.keyCacheArr[key] ELSE <<>>
                        all == IF d.MatchAll = "yes"
                                  THEN MatchAllLoop(rowNums, 1, val,
                                          [sheetValues |-> sv1,
                                           keyCacheMax |-> st.keyCacheMax])
                                  ELSE [sheetValues |-> sv1,
                                        keyCacheMax |-> st.keyCacheMax]
                    IN  [base EXCEPT !.sheetValues = all.sheetValues,
                                     !.keyCacheMax = all.keyCacheMax,
                                     !.indexed = at,
                                     !.outcome = IF CellsOf(all.sheetValues) = CellsOf(st.sheetValues)
                                                    THEN "no-op" ELSE "updated"]
        ELSE IF AllowsAppend(d)
        THEN
            LET sv1  == Append(st.sheetValues, <<Str(val)>>)
                max1 == Len(sv1) - 1
                isKeyCol == IsKeyColumn(col)
            IN  [base EXCEPT
                    !.sheetValues = sv1,
                    !.keyCacheMax = max1,
                    !.keyCache = IF isKeyCol
                                    THEN Put(st.keyCache, val, cfg.SheetDataStartRow + max1)
                                    ELSE st.keyCache,
                    !.keyCacheArr = IF isKeyCol /\ d.MatchAll = "yes"
                                       THEN Put(st.keyCacheArr, val,
                                                Append(IF val \in DOMAIN st.keyCacheArr
                                                          THEN st.keyCacheArr[val] ELSE <<>>,
                                                       cfg.SheetDataStartRow + max1))
                                       ELSE st.keyCacheArr,
                    !.outcome = "appended"]
        ELSE base

----------------------------------------------------------------------------
(* Write retrier *)

RetryLimit == 12

\* What Values.Update may answer instead of success: the quota error, a
\* timeout, a server error, and the error for a range that does not parse.
Errors     == {"Error 429", "operation timed out", "Error 500"}
BadRange   == "Error 400"
HardErrors == {"Error 500", BadRange}

\* Transient with a pattern that matches every error.
TransientAnyError(e) == e \in Errors \cup {BadRange}

\* regexp "Error 429|operation timed out" on err.Error()
Transient(e) == e \in {"Error 429", "operation timed out"}

\* RetryStep where a success does not end the loop.
RetryStepGoesOn(n, e) ==
    LET n1 == n - 1
        sleep == e # "ok" /\ Transient(e)
        n2 == IF e = "ok" \/ sleep THEN n1 ELSE 0
    IN  [iterations |-> n2, sleep |-> sleep, fatal |-> e # "ok" /\ n2 = 0]

\* RetryStep without the countdown.
RetryStepNoCountdown(n, e) ==
    LET sleep == e # "ok" /\ Transient(e)
        n2 == IF sleep THEN n ELSE 0
    IN  [iterations |-> n2, sleep |-> sleep, fatal |-> e # "ok" /\ n2 = 0]

\* RetryStep where the last error is logged and the loop just ends.
RetryStepNotFatal(n, e) ==
    LET n1 == n - 1
        sleep == e # "ok" /\ Transient(e)
        n2 == IF sleep THEN n1 ELSE 0
    IN  [iterations |-> n2, sleep |-> sleep, fatal |-> FALSE]

\* One pass of the retry loop after Values.Update returned e ("ok" for no
\* error), with the counter at n on entry: n is decremented, a transient
\* error sleeps, anything else zeroes the counter, and an error with the
\* counter at zero is logit.Fatal.
RetryStep(n, e) ==
    LET n1 == n - 1
        sleep == e # "ok" /\ Transient(e)
        n2 == IF sleep THEN n1 ELSE 0
    IN  [iterations |-> n2, sleep |-> sleep, fatal |-> e # "ok" /\ n2 = 0]

NoTries == [n |-> 0, oks |-> 0, okAt |-> 0, hardAt |-> 0]

\* The history after one more Values.Update that returned e.
Tried(t, e) ==
    [n |-> t.n + 1,
     oks |-> IF e = "ok" THEN t.oks + 1 ELSE t.oks,
     okAt |-> IF e = "ok" /\ t.okAt = 0 THEN t.n + 1 ELSE t.okAt,
     hardAt |-> IF e \in HardErrors /\ t.hardAt = 0 THEN t.n + 1 ELSE t.hardAt]

\* SetCol for a remote grid that appends the buffer below the last filled
\* row of the column instead of writing it at the start of the range.
SetColAppends(sh, col, start, sv) ==
    LET at == Max(start, LastRow(sh, col) + 1)
    IN  [sh EXCEPT ![col] =
            [r \in Rows |->
                IF r >= at /\ r - at + 1 <= Len(sv) /\ Len(sv[r - at + 1]) > 0
                    THEN UserEntered(sv[r - at + 1][1])
                    ELSE sh[col][r]]]

\* Values.Update of the open column range with the buffer sv: a row without
\* cells leaves its cell alone, "" clears it.
SetCol(sh, col, start, sv) ==
    [sh EXCEPT ![col] =
        [r \in Rows |->
            IF r >= start /\ r - start + 1 <= Len(sv) /\ Len(sv[r - start + 1]) > 0
                THEN UserEntered(sv[r - start + 1][1])
                ELSE sh[col][r]]]

----------------------------------------------------------------------------
(* Generic mode: updateGoogleSheetValues *)

Keys    == {"k1", "k2"}
RecKeys == Keys \cup {"k3"}
RecVals == {"7", "8"}

\* No record yet.  hits is the last val of every key of this datapoint's
\* records that the callback found in keyCache.
NoRec == [key |-> "", val |-> "", known |-> FALSE, outcome |-> "", again |-> FALSE,
          hits |-> EmptyMap]

\* The column letter the datapoint's title is cached under; Go's map gives
\* "" for a title that is not in the cache.
TopicCol(title) == IF title \in DOMAIN topicCache THEN topicCache[title] ELSE ""

KeyColOf(d) == IF d.KeyCol # "" THEN d.KeyCol ELSE cfg.SheetKeyCol

KeyColRange(d) == <<"col", KeyColOf(d), cfg.SheetDataStartRow>>

\* for _, dp := range cfg.Datapoints, the descriptor drawn from `space`
DP_Loop(space) ==
    /\ pc = "dp_loop"
    /\ IF di > cfgDatapoints
         THEN pc' = "done" /\ UNCHANGED dp
         ELSE pc' = "dp_letter" /\ dp' \in space
    /\ sheetValues' = <<>>
    /\ nrec' = 0
    /\ tries' = NoTries
    /\ sleeps' = 0
    /\ rec' = NoRec
    /\ UNCHANGED <<codec, sheet, reads, updates, legacyVars, cfgDatapoints, di, topicCache,
                   keyCache, keyCacheArr, keyCacheMax, iterations, failBudget, indexed>>

\* _ = cellValueToSheetLetter(cfg, srv, dp.Title, true)
DP_Letter ==
    /\ pc = "dp_letter"
    /\ reads' = Append(reads, TopicRowRange)
    /\ \/ /\ pc' = "fatal"      \* the read fails
          /\ UNCHANGED topicCache
       \/ LET r == cellValueToSheetLetter(sheet, topicCache, dp.Title, TRUE)
          IN  /\ pc' = IF r.fatal THEN "fatal" ELSE "dp_row"
              /\ topicCache' = r.cache
    /\ UNCHANGED <<codec, sheet, updates, legacyVars, cfgDatapoints, di, dp, keyCache,
                   keyCacheArr, keyCacheMax, sheetValues, nrec, iterations, tries,
                   sleeps, failBudget, indexed, rec>>

\* DP_Row for a program that reads the key column only while the cache is
\* empty.
DP_RowReadsOnce ==
    /\ pc = "dp_row"
    /\ reads' = IF keyCache = EmptyMap THEN Append(reads, KeyColRange(dp)) ELSE reads
    /\ \/ /\ pc' = "fatal"
          /\ UNCHANGED <<keyCache, keyCacheArr, keyCacheMax>>
       \/ LET r == cellValueToSheetRow(sheet, keyCache, keyCacheArr, keyCacheMax,
                                       KeyColOf(dp), dp.MatchAll, "", TRUE)
          IN  /\ pc' = IF r.fatal THEN "fatal" ELSE "dp_cmd"
              /\ keyCache' = IF keyCache = EmptyMap THEN r.keyCache ELSE keyCache
              /\ keyCacheArr' = IF keyCache = EmptyMap THEN r.keyCacheArr ELSE keyCacheArr
              /\ keyCacheMax' = IF keyCache = EmptyMap THEN r.keyCacheMax ELSE keyCacheMax
    /\ UNCHANGED <<codec, sheet, updates, legacyVars, cfgDatapoints, di, dp, topicCache,
                   sheetValues, nrec, iterations, tries, sleeps, failBudget, indexed, rec>>

\* _ = cellValueToSheetRow(..., keyCol, dp.MatchAll, srv, "", true)
DP_Row ==
    /\ pc = "dp_row"
    /\ reads' = Append(reads, KeyColRange(dp))
    /\ \/ /\ pc' = "fatal"      \* the read fails
          /\ UNCHANGED <<keyCache, keyCacheArr, keyCacheMax>>
       \/ LET r == cellValueToSheetRow(sheet, keyCache, keyCacheArr, keyCacheMax,
                                       KeyColOf(dp), dp.MatchAll, "", TRUE)
          IN  /\ pc' = IF r.fatal THEN "fatal" ELSE "dp_cmd"
              /\ keyCache' = r.keyCache
              /\ keyCacheArr' = r.keyCacheArr
              /\ keyCacheMax' = r.keyCacheMax
    /\ UNCHANGED <<codec, sheet, updates, legacyVars, cfgDatapoints, di, dp, topicCache,
                   sheetValues, nrec, iterations, tries, sleeps, failBudget, indexed, rec>>

\* The start of the retry loop: vr.Values = sheetValues; iterations := 12
StartPersist ==
    /\ iterations' = RetryLimit
    /\ tries' = NoTries
    /\ sleeps' = 0

\* CommandError of a program that logs the error and goes on with the next
\* datapoint.
CommandErrorLogged(k) == [pc |-> "dp_loop", di |-> k + 1]

\* cmd.CombinedOutput returned an error in the pass for datapoint k:
\* logit.Fatal, the process exits.
CommandError(k) == [pc |-> "fatal", di |-> k]

\* if len(dp.Command) > 0 { run the command; read the column; extend it }
DP_Command ==
    /\ pc = "dp_cmd"
    /\ IF dp.Command = ""
         THEN /\ pc' = "dp_persist"
              /\ StartPersist
              /\ UNCHANGED <<reads, sheetValues, di>>
         ELSE \/ /\ pc' = CommandError(di).pc       \* the command fails
                 /\ di' = CommandError(di).di
                 /\ UNCHANGED <<reads, sheetValues, iterations, tries, sleeps>>
              \/ /\ reads' = Append(reads, <<"col", TopicCol(dp.Title),
                                            cfg.SheetDataStartRow>>)
                 /\ \/ /\ pc' = "fatal"     \* the read fails
                       /\ UNCHANGED sheetValues
                    \/ /\ TopicCol(dp.Title) # ""
                       /\ pc' = "dp_rec"
                       /\ sheetValues' =
                            PadBuffer(GetCol(sheet, TopicCol(dp.Title),
                                             cfg.SheetDataStartRow, TRUE), keyCacheMax)
                 /\ UNCHANGED <<iterations, tries, sleeps, di>>
    /\ rec' = IF pc' = "dp_persist" THEN NoRec ELSE rec
    /\ UNCHANGED <<codec, sheet, updates, legacyVars, cfgDatapoints, dp, topicCache,
                   keyCache, keyCacheArr, keyCacheMax, nrec, failBudget, indexed>>

\* RecordUpdates for a program that sends each record's cell as it goes.
RecordUpdatesEach(u, k, col) ==
    Append(u, [k |-> k, what |-> "persist", col |-> col,
               row |-> cfg.SheetDataStartRow, failed |-> FALSE, hard |-> FALSE,
               attempt |-> 1, nreads |-> Len(reads)])

\* The Values.Update calls of the callback on one record: there is none,
\* the callback works on the buffer only.
RecordUpdates(u, k, col) == u

\* One call of the gjson.ForEachLine callback on a record drawn from
\* `records`, or the end of the output.
DP_RecordOf(records) ==
    /\ pc = "dp_rec"
    /\ \/ /\ nrec < MaxRecords
          /\ \E r0 \in records :
               LET key == r0[1]
                   val == r0[2]
                   r == Reconcile(dp, TopicCol(dp.Title), key, val,
                                  [sheetValues |-> sheetValues, keyCache |-> keyCache,
                                   keyCacheArr |-> keyCacheArr,
                                   keyCacheMax |-> keyCacheMax])
               IN  /\ sheetValues' = r.sheetValues
                   /\ keyCache' = r.keyCache
                   /\ keyCacheArr' = r.keyCacheArr
                   /\ keyCacheMax' = r.keyCacheMax
                   /\ indexed' = IF r.indexed # <<>> THEN r.indexed ELSE indexed
                   /\ rec' = [key |-> key, val |-> val,
                              known |-> key \in DOMAIN keyCache,
                              outcome |-> r.outcome,
                              again |-> rec.key = key /\ rec.val = val /\ nrec > 0,
                              hits |-> IF key \in DOMAIN keyCache
                                          THEN Put(rec.hits, key, val)
                                          ELSE rec.hits]
                   /\ pc' = IF r.panic THEN "panic" ELSE "dp_rec"
          /\ nrec' = nrec + 1
          /\ updates' = RecordUpdates(updates, di, TopicCol(dp.Title))
          /\ UNCHANGED <<iterations, tries, sleeps>>
       \/ /\ pc' = "dp_persist"
          /\ StartPersist
          /\ rec' = [NoRec EXCEPT !.hits = rec.hits]
          /\ UNCHANGED <<sheetValues, keyCache, keyCacheArr, keyCacheMax, nrec, indexed,
                         updates>>
    /\ UNCHANGED <<codec, sheet, reads, legacyVars, cfgDatapoints, di, dp,
                   topicCache, failBudget>>

DP_Record == DP_RecordOf(RecKeys \X RecVals)

\* One pass of the retry loop: Values.Update of the column with the buffer.
\* An update that timed out may have been applied all the same.
DP_Update ==
    /\ pc = "dp_persist"
    /\ iterations > 0
    /\ \E e \in IF TopicCol(dp.Title) = "" THEN {BadRange}
              ELSE {"ok"} \cup (IF failBudget > 0 THEN Errors ELSE {}) :
         LET r == RetryStep(iterations, e)
             col == TopicCol(dp.Title)
         IN  /\ \/ /\ e \in {"ok", "operation timed out"}
                   /\ sheet' = SetCol(sheet, col, cfg.SheetDataStartRow, sheetValues)
                \/ /\ e # "ok"
                   /\ sheet' = sheet
             /\ updates' = Append(updates, [k |-> di, what |-> "persist", col |-> col,
                                            row |-> cfg.SheetDataStartRow,
                                            failed |-> e # "ok",
                                            hard |-> e \in HardErrors,
                                            attempt |-> tries.n + 1,
                                            nreads |-> Len(reads)])
             /\ tries' = Tried(tries, e)
             /\ sleeps' = IF r.sleep THEN sleeps + 1 ELSE sleeps
             /\ iterations' = r.iterations
             /\ failBudget' = IF e \in Errors THEN failBudget - 1 ELSE failBudget
             /\ pc' = IF r.fatal THEN "fatal"
                      ELSE IF r.iterations > 0 THEN "dp_persist" ELSE "dp_loop"
             /\ di' = IF ~r.fatal /\ r.iterations = 0 THEN di + 1 ELSE di
    /\ UNCHANGED <<codec, reads, legacyVars, cfgDatapoints, dp, topicCache, keyCache,
                   keyCacheArr, keyCacheMax, sheetValues, nrec, indexed, rec>>

----------------------------------------------------------------------------
(* Initial states and specifications *)

\* The header rows a legacy sheet starts with: columns A and B are the
\* last-update and the title column, the weeks follow.
LegacyHeaders ==
    { <<>>,
      <<Str("Last update"), Str("KPI"), Str("2026-44")>>,
      <<Str("Last update"), Str("KPI"), Str(nowYearWeek)>>,
      <<Str("Last update"), Str("KPI"), Str("2026-44"), Str(nowYearWeek)>> }
TitleCells == {Empty, Str("T1"), Str("T2")}

LegacySheet(hdr, t2, t3) ==
    [c \in Cols |-> [r \in Rows |->
        IF r = cfg.SheetTopicRow
            THEN (IF \E i \in 1 .. Len(hdr) : Itoa(i - 1) = c
                    THEN hdr[CHOOSE i \in 1 .. Len(hdr) : Itoa(i - 1) = c]
                    ELSE Empty)
        ELSE IF c = cfg.SheetKeyCol /\ r = 2 THEN t2
        ELSE IF c = cfg.SheetKeyCol /\ r = 3 THEN t3
        ELSE Empty]]

GenericIdle ==
    /\ cfgDatapoints \in {0, 1}
    /\ di = 1
    /\ dp = [Title |-> ""]
    /\ topicCache = EmptyMap
    /\ keyCache = EmptyMap
    /\ keyCacheArr = EmptyMap
    /\ keyCacheMax = 0
    /\ sheetValues = <<>>
    /\ nrec = 0
    /\ iterations = 0
    /\ tries = NoTries
    /\ sleeps = 0
    /\ failBudget = 0
    /\ indexed = <<>>
    /\ rec = NoRec

InitLegacy ==
    /\ pc = "main"
    /\ \E hdr \in LegacyHeaders, t2 \in TitleCells, t3 \in TitleCells :
         sheet = LegacySheet(hdr, t2, t3)
    /\ reads = <<>>
    /\ updates = <<>>
    /\ cfgKPI \in 0 .. MaxKPI
    /\ ki = 1
    /\ kpi = [Title |-> "", SheetRow |-> 0, src |-> "none"]
    /\ out = 0
    /\ dataWeekColLetter = ""
    /\ syncCount = [c \in {errorCode.synced, errorCode.collision, errorCode.failed} |-> 0]
    /\ calls = <<>>
    /\ GenericIdle
    /\ codec = NoCodec

NextLegacy ==
    \/ main
    \/ KPI_ResolveWeek
    \/ KPI_Scrape
    \/ KPI_WriteTitle
    \/ KPI_WriteValue
    \/ KPI_WriteDate

SpecLegacy == InitLegacy /\ [][NextLegacy]_vars

\* The sheets a generic run starts with: row 1 holds the topics (the key
\* column's own header among them), column B the keys, column C the values
\* of topic "Jan".
GenericHeader == <<Empty, Str("Key"), Str("Jan")>>

RECURSIVE SeqsUpTo(_, _)
SeqsUpTo(S, n) ==
    IF n = 0 THEN {<<>>}
    ELSE SeqsUpTo(S, n - 1) \cup
         {Append(q, x) : q \in {t \in SeqsUpTo(S, n - 1) : Len(t) = n - 1}, x \in S}

\* Columns of at most MaxData cells whose last cell is not empty.
ColumnsOver(S) == {q \in SeqsUpTo(S \cup {Empty}, MaxData) : Trim(q) = q}

KeyColumns   == ColumnsOver({Str(k) : k \in Keys})
TopicColumns == ColumnsOver({Num(7)})

ColCell(column, r) ==
    IF r >= cfg.SheetDataStartRow /\ r - cfg.SheetDataStartRow + 1 <= Len(column)
        THEN column[r - cfg.SheetDataStartRow + 1] ELSE Empty

GenericSheet(keys, vals) ==
    [c \in Cols |-> [r \in Rows |->
        IF r = cfg.SheetTopicRow
            THEN (IF \E i \in 1 .. Len(GenericHeader) : Itoa(i - 1) = c
                    THEN GenericHeader[CHOOSE i \in 1 .. Len(GenericHeader) : Itoa(i - 1) = c]
                    ELSE Empty)
        ELSE IF c = cfg.SheetKeyCol THEN ColCell(keys, r)
        ELSE IF c = "C" THEN ColCell(vals, r)
        ELSE Empty]]

LegacyIdle ==
    /\ cfgKPI = -1
    /\ ki = 1
    /\ kpi = [Title |-> "", SheetRow |-> 0, src |-> "none"]
    /\ out = 0
    /\ dataWeekColLetter = ""
    /\ syncCount = [c \in {errorCode.synced, errorCode.collision, errorCode.failed} |-> 0]
    /\ calls = <<>>

\* The datapoint descriptors of a generic run.
GenericDatapoints ==
    [Title : {"Jan"}, Command : {"cmd", ""}, AddRows : {"yes", ""},
     MatchAll : {""}, KeyCol : {""}]

InitGeneric ==
    /\ pc = "main"
    /\ \E keys \in KeyColumns, vals \in TopicColumns : sheet = GenericSheet(keys, vals)
    /\ reads = <<>>
    /\ updates = <<>>
    /\ LegacyIdle
    /\ cfgDatapoints = MaxDP
    /\ di = 1
    /\ dp = [Title |-> "", Command |-> "", AddRows |-> "", MatchAll |-> "", KeyCol |-> ""]
    /\ topicCache = EmptyMap
    /\ keyCache = EmptyMap
    /\ keyCacheArr = EmptyMap
    /\ keyCacheMax = 0
    /\ sheetValues = <<>>
    /\ nrec = 0
    /\ iterations = 0
    /\ tries = NoTries
    /\ sleeps = 0
    /\ failBudget = MaxFailures
    /\ indexed = <<>>
    /\ rec = NoRec
    /\ codec = NoCodec

NextGeneric ==
    \/ main
    \/ DP_Loop(GenericDatapoints)
    \/ DP_Letter
    \/ DP_Row
    \/ DP_Command
    \/ DP_Record
    \/ DP_Update

SpecGeneric == InitGeneric /\ [][NextGeneric]_vars

\* A run that exercises the retrier: one sheet, and a remote grid that may
\* fail every Update of a persist.
RetryDatapoints ==
    [Title : {"Jan"}, Command : {"cmd", ""}, AddRows : {""},
     MatchAll : {""}, KeyCol : {""}]

RetryInit(n) ==
    /\ pc = "main"
    /\ sheet = GenericSheet(<<Str("k1"), Str("k2")>>, <<Num(7), Num(7)>>)
    /\ reads = <<>>
    /\ updates = <<>>
    /\ LegacyIdle
    /\ cfgDatapoints = n
    /\ di = 1
    /\ dp = [Title |-> "", Command |-> "", AddRows |-> "", MatchAll |-> "", KeyCol |-> ""]
    /\ topicCache = EmptyMap
    /\ keyCache = EmptyMap
    /\ keyCacheArr = EmptyMap
    /\ keyCacheMax = 0
    /\ sheetValues = <<>>
    /\ nrec = 0
    /\ iterations = 0
    /\ tries = NoTries
    /\ sleeps = 0
    /\ failBudget = RetryLimit
    /\ indexed = <<>>
    /\ rec = NoRec
    /\ codec = NoCodec

NextRetry ==
    \/ main
    \/ DP_Loop(RetryDatapoints)
    \/ DP_Letter
    \/ DP_Row
    \/ DP_Command
    \/ DP_Record
    \/ DP_Update

InitRetry == RetryInit(MaxDP)

SpecRetry == InitRetry /\ [][NextRetry]_vars

\* A run of one datapoint, for the progress of its persist.  The thread of
\* main() keeps running: every call it makes returns.
InitPersist == RetryInit(1)

SpecPersist == InitPersist /\ [][NextRetry]_vars /\ WF_vars(NextRetry)

\* A generic sheet with the header row hdr.
SheetOf(hdr, keys, vals) ==
    [c \in Cols |-> [r \in Rows |->
        IF r = cfg.SheetTopicRow
            THEN (IF \E i \in 1 .. Len(hdr) : Itoa(i - 1) = c
                    THEN hdr[CHOOSE i \in 1 .. Len(hdr) : Itoa(i - 1) = c]
                    ELSE Empty)
        ELSE IF c = cfg.SheetKeyCol THEN ColCell(keys, r)
        ELSE IF c = "C" THEN ColCell(vals, r)
        ELSE Empty]]

\* The state of a generic run of n datapoints on the sheets of `sheets`,
\* with a remote grid that never fails an update.
GenericInit(sheets, n) ==
    /\ pc = "main"
    /\ sheet \in sheets
    /\ reads = <<>>
    /\ updates = <<>>
    /\ LegacyIdle
    /\ cfgDatapoints = n
    /\ di = 1
    /\ dp = [Title |-> "", Command |-> "", AddRows |-> "", MatchAll |-> "", KeyCol |-> ""]
    /\ topicCache = EmptyMap
    /\ keyCache = EmptyMap
    /\ keyCacheArr = EmptyMap
    /\ keyCacheMax = 0
    /\ sheetValues = <<>>
    /\ nrec = 0
    /\ iterations = 0
    /\ tries = NoTries
    /\ sleeps = 0
    /\ failBudget = 0
    /\ indexed = <<>>
    /\ rec = NoRec
    /\ codec = NoCodec

\* Runs that exercise the reconciler: one datapoint on the key column or on
\* topic "Jan", with or without row-append and match-all, over key columns
\* with blank and repeated keys.
ReconcileKeyColumns ==
    { <<Str("k1"), Str("k2")>>,
      <<Str("k1"), Empty, Str("k1")>>,
      <<Str("k1"), Str("k2"), Str("k1")>> }

ReconcileDatapoints ==
    [Title : {"Key", "Jan"}, Command : {"cmd", ""}, AddRows : {"yes", ""},
     MatchAll : {"yes", ""}, KeyCol : {""}]

ReconcileRecords ==
    { <<"k1", "7">>, <<"k1", "8">>, <<"k1", "">>, <<"k2", "7">>,
      <<"k3", "7">>, <<"k3", "k3">>, <<"k3", "k1">> }

InitReconcile ==
    GenericInit({GenericSheet(keys, vals) :
                    keys \in ReconcileKeyColumns, vals \in TopicColumns}, 1)

NextReconcile ==
    \/ main
    \/ DP_Loop(ReconcileDatapoints)
    \/ DP_Letter
    \/ DP_Row
    \/ DP_Command
    \/ DP_RecordOf(ReconcileRecords)
    \/ DP_Update

SpecReconcile == InitReconcile /\ [][NextReconcile]_vars

\* Runs that exercise the coordinate caches: header rows with blank and
\* repeated topics (and no header at all), key columns with blank and
\* repeated keys, datapoints on the key column, on "Jan" and on "Feb".
CacheHeaders ==
    { <<>>,
      GenericHeader,
      <<Empty, Str("Jan"), Empty, Str("Feb")>>,
      <<Empty, Str("Key"), Str("Jan"), Str("Jan")>> }

CacheKeyColumns ==
    { <<>>,
      <<Str("k1")>>,
      <<Empty, Str("k1")>>,
      <<Str("k1"), Str("k2"), Str("k1")>>,
      <<Str("k1"), Str("k1"), Str("k1"), Str("k2")>> }

CacheDatapoints ==
    [Title : {"Key", "Jan", "Feb"}, Command : {"cmd", ""}, AddRows : {"yes", ""},
     MatchAll : {""}, KeyCol : {""}]

CacheRecords == { <<"k1", "7">>, <<"k3", "k1">> }

\* Every header row over one key column, and every key column under one
\* header row.
CacheSheets ==
    {SheetOf(hdr, <<Str("k1"), Str("k2"), Str("k1")>>, <<Num(7)>>) : hdr \in CacheHeaders}
        \cup {SheetOf(GenericHeader, keys, <<Num(7)>>) : keys \in CacheKeyColumns}

InitCaches == GenericInit(CacheSheets, MaxDP)

NextCaches ==
    \/ main
    \/ DP_Loop(CacheDatapoints)
    \/ DP_Letter
    \/ DP_Row
    \/ DP_Command
    \/ DP_RecordOf(CacheRecords)
    \/ DP_Update

SpecCaches == InitCaches /\ [][NextCaches]_vars

\* Runs in which a datapoint may name its own key column (dp.KeyCol) and may
\* set match-all: the keys are in column B, column C holds the same keys in
\* other rows, the topic "Jan" is column D.
KeyColHeader == <<Empty, Str("Key"), Str("Alt"), Str("Jan")>>

KeyColSheets ==
    { SheetOf(KeyColHeader, <<Str("k1"), Str("k2"), Str("k1")>>, alt) :
        alt \in { <<Str("k2"), Str("k1")>>, <<Str("k1"), Str("k1"), Str("k2")>> } }

KeyColDatapoints ==
    [Title : {"Jan"}, Command : {"cmd", ""}, AddRows : {""},
     MatchAll : {"yes", ""}, KeyCol : {"C", ""}]

KeyColRecords == { <<"k1", "7">>, <<"k2", "8">> }

InitKeyCols == GenericInit(KeyColSheets, MaxDP)

NextKeyCols ==
    \/ main
    \/ DP_Loop(KeyColDatapoints)
    \/ DP_Letter
    \/ DP_Row
    \/ DP_Command
    \/ DP_RecordOf(KeyColRecords)
    \/ DP_Update

SpecKeyCols == InitKeyCols /\ [][NextKeyCols]_vars

\* Runs of either mode: the configuration has a list of KPIs (possibly
\* without an entry) or none, and any number of datapoints, on a sheet that
\* serves both modes.
ModeHeaders ==
    { GenericHeader,
      <<Str("Last update"), Str("Key"), Str("Jan"), Str(nowYearWeek)>> }

ModeSheets ==
    {SheetOf(hdr, <<Str("k1"), Str("k2")>>, <<Num(7), Num(7)>>) : hdr \in ModeHeaders}

InitModes ==
    /\ pc = "main"
    /\ sheet \in ModeSheets
    /\ reads = <<>>
    /\ updates = <<>>
    /\ cfgKPI \in -1 .. MaxKPI
    /\ ki = 1
    /\ kpi = [Title |-> "", SheetRow |-> 0, src |-> "none"]
    /\ out = 0
    /\ dataWeekColLetter = ""
    /\ syncCount = [c \in {errorCode.synced, errorCode.collision, errorCode.failed} |-> 0]
    /\ calls = <<>>
    /\ cfgDatapoints \in 0 .. MaxDP
    /\ di = 1
    /\ dp = [Title |-> "", Command |-> "", AddRows |-> "", MatchAll |-> "", KeyCol |-> ""]
    /\ topicCache = EmptyMap
    /\ keyCache = EmptyMap
    /\ keyCacheArr = EmptyMap
    /\ keyCacheMax = 0
    /\ sheetValues = <<>>
    /\ nrec = 0
    /\ iterations = 0
    /\ tries = NoTries
    /\ sleeps = 0
    /\ failBudget = 0
    /\ indexed = <<>>
    /\ rec = NoRec
    /\ codec = NoCodec

NextModes ==
    \/ main
    \/ KPI_ResolveWeek
    \/ KPI_Scrape
    \/ KPI_WriteTitle
    \/ KPI_WriteValue
    \/ KPI_WriteDate
    \/ DP_Loop(RetryDatapoints)
    \/ DP_Letter
    \/ DP_Row
    \/ DP_Command
    \/ DP_RecordOf(CacheRecords)
    \/ DP_Update

SpecModes == InitModes /\ [][NextModes]_vars

\* Calls of the codec: every offset from -MaxNegative to MaxOffset is
\* encoded and the label decoded again; every string of at most MaxLetters
\* of the model's characters is decoded.
InitCodec ==
    /\ pc = "codec"
    /\ sheet = EmptySheet
    /\ reads = <<>>
    /\ updates = <<>>
    /\ LegacyIdle
    /\ GenericIdle
    /\ cfgDatapoints = 0
    /\ \/ \E n \in (0 - MaxNegative) .. MaxOffset : codec = [NoCodec EXCEPT !.op = "Itoa", !.n = n]
       \/ \E t \in StringsUpTo(MaxLetters) : codec = [NoCodec EXCEPT !.op = "Atoi", !.s = t]

NextCodec ==
    \/ Codec_Itoa
    \/ Codec_Atoi

SpecCodec == InitCodec /\ [][NextCodec]_vars

\* The grid is tall enough for every buffer the run sends.
RowsSuffice ==
    sheetValues = <<>> \/ cfg.SheetDataStartRow + Len(sheetValues) - 1 \in Rows

----------------------------------------------------------------------------
(* Legacy mode: properties *)

TallySum == syncCount[errorCode.synced] + syncCount[errorCode.collision]
                + syncCount[errorCode.failed]

\* The KPIs whose scrape gave a value, i.e. that reached their title write.
ProcessedKPIs == {calls[i].k : i \in {j \in DOMAIN calls : calls[j].what = "kpi_title"}}

\* A title write that found a non-empty cell differing from the title.
IsMismatch(c) ==
    c.what = "kpi_title" /\ ~c.readErr /\ c.seen # Empty /\ c.seen # c.value

UpdatesOf(k, whats) ==
    {j \in DOMAIN updates : updates[j].k = k /\ updates[j].what \in whats}

\* C1: a collision-checked title write that finds a non-empty title cell
\* differing from the KPI's title issues no update of that cell and returns
\* `collision`; from then on, to the end of the run, the cell holds what the
\* check found in it.
C1_CollisionLeavesTitleCell ==
    \A i \in DOMAIN calls :
        IsMismatch(calls[i]) =>
            /\ ~calls[i].update
            /\ UpdatesOf(calls[i].k, {"kpi_title"}) = {}
            /\ ~calls[i].fatal
            /\ calls[i].ret = errorCode.collision
            /\ sheet[calls[i].col][calls[i].row] = calls[i].seen

C1_Witness ==
    /\ pc = "done"
    /\ \E i \in DOMAIN calls :
          IsMismatch(calls[i]) /\ calls[i].ret = errorCode.collision

\* C31: a collision-checked write whose read succeeded is a collision
\* exactly when the cell it read is not empty and differs from the new
\* value; when the cell is empty or holds the new value already, the write
\* issues one update of that cell, and only one, and does not return
\* `collision`.
C31_CollisionIffMismatch ==
    \A i \in DOMAIN calls :
        (calls[i].overwrite = 0 /\ ~calls[i].readErr) =>
            LET c == calls[i]
                mismatch == c.seen # Empty /\ c.seen # c.value
                sent == {j \in DOMAIN updates : /\ updates[j].k = c.k
                                                /\ updates[j].what = c.what
                                                /\ updates[j].col = c.col
                                                /\ updates[j].row = c.row}
            IN  /\ c.ret = errorCode.collision <=> mismatch
                /\ mismatch => (~c.update /\ sent = {})
                /\ ~mismatch =>
                      /\ c.update
                      /\ Cardinality(sent) = 1
                      /\ \A j \in sent : updates[j].val = c.value

\* A run is over in which one title write found its title in the cell and
\* another found the cell empty; both sent their update.
C31_Witness ==
    /\ pc = "done"
    /\ \E i, j \in DOMAIN calls :
          /\ calls[i].overwrite = 0
          /\ calls[i].seen = calls[i].value
          /\ calls[i].update
          /\ calls[i].ret # errorCode.collision
          /\ calls[j].overwrite = 0
          /\ calls[j].seen = Empty
          /\ calls[j].update
          /\ calls[j].ret # errorCode.collision

\* C2: when a KPI's title write is a collision, no update of that KPI's
\* value cell or last-update cell is issued in the run.
C2_CollisionSkipsValueAndDate ==
    \A i \in DOMAIN calls :
        (calls[i].what = "kpi_title" /\ calls[i].ret = errorCode.collision)
            => UpdatesOf(calls[i].k, {"kpi_value", "kpi_date"}) = {}

\* C3: a title write that finds the title cell empty issues the update and
\* adds `synced` to the tally, and the value and last-update writes of that
\* KPI follow.
C3_EmptyTitleIsSynced ==
    \A i \in DOMAIN calls :
        (calls[i].what = "kpi_title" /\ ~calls[i].readErr
            /\ calls[i].seen = Empty /\ ~calls[i].updErr)
            => /\ calls[i].update
               /\ calls[i].ret = errorCode.synced
               /\ pc = "done" =>
                    /\ UpdatesOf(calls[i].k, {"kpi_value"}) # {}
                    /\ UpdatesOf(calls[i].k, {"kpi_date"}) # {}

\* C4 as stated: at the end of a run the tally counts sum to the number of
\* KPIs processed.
C4_OneOutcomePerKPI ==
    pc = "done" => TallySum = Cardinality(ProcessedKPIs)

\* C4 as amended: every writeSheetCell call that returns adds exactly one
\* outcome to the tally, and at the end of a run the counts sum to three
\* times the number of KPIs processed (title, value, last-update).
C4_OneOutcomePerWrite ==
    /\ TallySum = Cardinality({i \in DOMAIN calls : ~calls[i].fatal})
    /\ pc = "done" => TallySum = 3 * Cardinality(ProcessedKPIs)

C4_Witness ==
    /\ pc = "done"
    /\ Cardinality(ProcessedKPIs) = 2
    /\ syncCount[errorCode.collision] > 0

\* C9: a failed remote write is the last remote update of the run: the
\* process is aborted with it.
C9_WriteFailureAborts ==
    \A j \in DOMAIN updates :
        updates[j].failed => (j = Len(updates) /\ pc = "fatal")

C9_Witness ==
    /\ pc = "fatal"
    /\ updates # <<>>
    /\ updates[Len(updates)].failed
    /\ updates[Len(updates)].what = "kpi_title"
    /\ ki < cfgKPI

\* The header row holds the current week.
WeekInHeader == \E c \in Cols : sheet[c][cfg.SheetTopicRow] = Str(nowYearWeek)

\* C18: when the current week is not in the header row, the lookup of the
\* week column (not a caching run) is fatal, and it is so before any KPI is
\* processed: the run issues no remote update and makes no cell write.
C18_MissingWeekIsFatal ==
    ~WeekInHeader =>
        /\ updates = <<>>
        /\ calls = <<>>
        /\ pc \in {"main", "kpi_resolve", "fatal"}
        /\ reads # <<>> => (reads = <<TopicRowRange>> /\ pc = "fatal")

C18_Witness ==
    /\ ~WeekInHeader
    /\ sheet["C"][cfg.SheetTopicRow] = Str("2026-44")
    /\ cfgKPI = MaxKPI
    /\ reads = <<TopicRowRange>>
    /\ pc = "fatal"

\* The place of a legacy write in the loop body.
WriteRank == [kpi_title |-> 1, kpi_value |-> 2, kpi_date |-> 3]

\* C23: the remote updates of a legacy run come KPI by KPI in configured
\* order and, within a KPI, in the order title, value, last-update date,
\* each at most once; the header row is read once per run, as the first
\* read, before any KPI is scraped or written.
C23_LegacyOrder ==
    /\ \A i, j \in DOMAIN updates :
          i < j => \/ updates[i].k < updates[j].k
                   \/ /\ updates[i].k = updates[j].k
                      /\ WriteRank[updates[i].what] < WriteRank[updates[j].what]
    /\ Cardinality({i \in DOMAIN reads : reads[i] = TopicRowRange}) <= 1
    /\ pc \notin {"main", "kpi_resolve"} =>
          /\ reads # <<>>
          /\ reads[1] = TopicRowRange
          /\ Cardinality({i \in DOMAIN reads : reads[i] = TopicRowRange}) = 1
    /\ pc \in {"main", "kpi_resolve"} => (calls = <<>> /\ updates = <<>> /\ ki = 1)

C23_Witness ==
    /\ pc = "done"
    /\ cfgKPI = MaxKPI
    /\ Len(updates) = 3 * MaxKPI
    /\ Cardinality({i \in DOMAIN reads : reads[i] = TopicRowRange}) = 1
    /\ updates[1].what = "kpi_title"
    /\ updates[Len(updates)].what = "kpi_date"
    /\ updates[Len(updates)].k = MaxKPI

\* C36: a KPI that configures neither a JSON endpoint nor a command is
\* skipped.  The loop step that meets it changes neither the grid nor the
\* logs of reads and updates nor the tally and goes on to the next KPI; no
\* write step is ever entered for it and no writeSheetCell call bears its
\* index; the KPIs after it are scraped in their turn.
C36_SourcelessKPIIsSkipped ==
    /\ [](/\ pc \in {"kpi_title", "kpi_value", "kpi_date"} => kpi.src # "none"
          /\ \A i \in DOMAIN calls :
                \/ calls[i].k < ki
                \/ calls[i].k = ki /\ kpi.src # "none" /\ pc # "kpi_loop")
    /\ [][ (pc = "kpi_loop" /\ ki <= cfgKPI /\ kpi'.src = "none") =>
              /\ pc' = "kpi_loop"
              /\ ki' = ki + 1
              /\ out' = -1
              /\ sheet' = sheet /\ reads' = reads /\ updates' = updates
              /\ syncCount' = syncCount /\ calls' = calls
              /\ \A i \in DOMAIN calls : calls[i].k # ki ]_vars

\* The first KPI had no source and the second went through its three
\* writes: the run is over, every call and update bears the index 2 and the
\* tally counts the three calls of the second KPI only.
C36_Witness ==
    /\ pc = "done"
    /\ cfgKPI = 2
    /\ Len(calls) = 3
    /\ Len(updates) = 3
    /\ \A i \in DOMAIN calls : calls[i].k = 2
    /\ \A j \in DOMAIN updates : updates[j].k = 2
    /\ Len(reads) = 2
    /\ TallySum = 3

----------------------------------------------------------------------------
(* Write retrier and generic mode: properties *)

\* C5: if the first k Update calls of a persist fail with a transient error
\* and call k+1 succeeds (0 <= k < 12), then k+1 calls were made, k sleeps
\* were taken, one call succeeded, and the persist is over without a fatal
\* error: the loop has moved on and no further call follows.
C5_RetryUntilSuccess ==
    \A k \in 0 .. RetryLimit - 1 :
        (tries.okAt = k + 1 /\ (tries.hardAt = 0 \/ tries.hardAt > k + 1))
            => /\ tries.n = k + 1
               /\ sleeps = k
               /\ tries.oks = 1
               /\ iterations = 0
               /\ pc = "dp_loop"

C5_Witness ==
    /\ tries.okAt = RetryLimit
    /\ sleeps = RetryLimit - 1
    /\ sheetValues # <<>>

\* C6: a persist issues at most 12 Update calls, and it ends.
C6_PersistIsBoundedAndEnds ==
    /\ [](tries.n <= RetryLimit)
    /\ [](pc = "dp_persist" => <>(pc # "dp_persist"))

C6_Witness ==
    /\ tries.n = RetryLimit
    /\ tries.oks = 0
    /\ tries.hardAt = 0
    /\ sleeps = RetryLimit
    /\ pc = "fatal"

\* C7: an Update that fails with a non-transient error is the last call of
\* its persist, no sleep follows it, and the failure is fatal.
C7_HardErrorIsFatalAtOnce ==
    tries.hardAt # 0 =>
        /\ tries.n = tries.hardAt
        /\ tries.okAt = 0
        /\ sleeps = tries.hardAt - 1
        /\ pc = "fatal"

C7_Witness ==
    /\ tries.hardAt = 3
    /\ pc = "fatal"

\* An Update with which a persist ended in failure: a non-transient error,
\* or an error of the twelfth call.
FinalFailure(u) ==
    u.what = "persist" /\ u.failed /\ (u.hard \/ u.attempt = RetryLimit)

\* C8 as stated: a persist that ends in failure does not abort the run, and
\* every datapoint configured after it is still persisted.
C8_PersistFailureContinues ==
    \A j \in DOMAIN updates :
        FinalFailure(updates[j]) =>
            /\ pc # "fatal"
            /\ pc = "done" =>
                  \A k \in updates[j].k + 1 .. cfgDatapoints :
                      \E i \in DOMAIN updates : updates[i].k = k

\* C8 as amended: a persist that ends in failure aborts the run: its last
\* Update is the last remote call of the run, and the loop never reaches
\* the datapoints configured after it.
C8_PersistFailureAborts ==
    \A j \in DOMAIN updates :
        FinalFailure(updates[j]) =>
            /\ j = Len(updates)
            /\ Len(reads) = updates[j].nreads
            /\ di = updates[j].k
            /\ pc = "fatal"

C8_Witness ==
    /\ pc = "fatal"
    /\ di < cfgDatapoints
    /\ updates # <<>>
    /\ FinalFailure(updates[Len(updates)])
    /\ updates[Len(updates)].attempt = RetryLimit

\* C10: the buffer is never indexed out of bounds by the row of a cached
\* key: at every such indexing its length exceeds the offset.
C10_IndexInBounds ==
    /\ pc # "panic"
    /\ indexed # <<>> => indexed[1] < indexed[2]

----------------------------------------------------------------------------
(* Value reconciler: properties *)

\* A step in which the callback ran on the record rec'.
ReconcileStep == pc = "dp_rec" /\ nrec' = nrec + 1

\* The rows the multi-row cache holds for a key.
RowsOfKey(arr, key) ==
    IF key \in DOMAIN arr THEN {arr[key][j] : j \in DOMAIN arr[key]} ELSE {}

\* C11: reconciling a record (key, val) of a known key, match-all unset,
\* finds the buffer cell of the key's row and compares val with its string
\* form: equal, the cell keeps its value (no-op); different, the cell
\* becomes val (updated); every other cell keeps its value and the buffer
\* keeps its length.
C11_KnownKeyCompareAndSet ==
    [][ (ReconcileStep /\ rec'.known /\ dp.MatchAll # "yes") =>
            LET n == keyCache[rec'.key] - cfg.SheetDataStartRow
            IN  /\ n < Len(sheetValues)
                /\ Len(sheetValues') = Len(sheetValues)
                /\ \A i \in 0 .. Len(sheetValues) - 1 :
                      i # n => CellAt(sheetValues', i) = CellAt(sheetValues, i)
                /\ IF rec'.val = Sprintf(CellAt(sheetValues, n))
                      THEN /\ CellAt(sheetValues', n) = CellAt(sheetValues, n)
                           /\ rec'.outcome = "no-op"
                      ELSE /\ CellAt(sheetValues', n) = Str(rec'.val)
                           /\ rec'.outcome = "updated" ]_vars

\* C12: with match-all set, after reconciling (key, val) every row the
\* multi-row cache holds for the key reads val in the buffer, and every row
\* the buffer was extended by that is not a row of the key is an empty
\* placeholder.
C12_MatchAllTouchesOnlyTheKeysRows ==
    [][ (ReconcileStep /\ rec'.known /\ dp.MatchAll = "yes") =>
            LET rows == RowsOfKey(keyCacheArr, rec'.key)
            IN  /\ \A r \in rows :
                      /\ r - cfg.SheetDataStartRow < Len(sheetValues')
                      /\ Sprintf(CellAt(sheetValues', r - cfg.SheetDataStartRow))
                            = rec'.val
                /\ \A i \in Len(sheetValues) .. Len(sheetValues') - 1 :
                      (cfg.SheetDataStartRow + i) \notin rows
                          => CellAt(sheetValues', i) = Empty ]_vars

\* C13: a record of an unknown key, for a datapoint that does not allow
\* row-append, is skipped: the buffer, both caches and the max-row tracker
\* are as before, and no remote update is issued.
C13_UnknownKeyIsSkipped ==
    [][ (ReconcileStep /\ ~rec'.known /\ dp.AddRows # "yes") =>
            /\ UNCHANGED <<sheetValues, keyCache, keyCacheArr, keyCacheMax>>
            /\ UNCHANGED <<sheet, updates>>
            /\ rec'.outcome = "skipped"
            /\ pc' = "dp_rec" ]_vars

C13_Witness ==
    /\ pc = "dp_rec"
    /\ rec.key = "k3"
    /\ ~rec.known
    /\ rec.outcome = "skipped"
    /\ sheetValues # <<>>
    /\ dp.AddRows = ""

\* C14 as stated: a record (key, val) of an unknown key, row-append allowed,
\* grows the buffer by one cell holding val, maps the record's key to the
\* new row in the Key-to-Row Cache and raises the max-row tracker by one,
\* whatever the topic column.
C14_AppendCachesTheKey ==
    [][ (ReconcileStep /\ ~rec'.known /\ dp.AddRows = "yes") =>
            /\ sheetValues' = Append(sheetValues, <<Str(rec'.val)>>)
            /\ keyCache' = Put(keyCache, rec'.key,
                               cfg.SheetDataStartRow + Len(sheetValues') - 1)
            /\ keyCacheMax' = keyCacheMax + 1 ]_vars

\* C14 as amended: such a record grows the buffer by one cell holding val
\* at its end and sets the max-row tracker to the new length - 1; when the
\* topic column is the key column the Key-to-Row Cache maps val (not the
\* record's key) to the new row, and with match-all the multi-row cache
\* gets that row for val; for any other topic column both caches are left
\* as they were.
C14_AppendCachesTheValueInKeyColumn ==
    [][ (ReconcileStep /\ ~rec'.known /\ dp.AddRows = "yes") =>
            LET row == cfg.SheetDataStartRow + Len(sheetValues)
                inKeyCol == TopicCol(dp.Title) = cfg.SheetKeyCol
            IN  /\ sheetValues' = Append(sheetValues, <<Str(rec'.val)>>)
                /\ keyCacheMax' = Len(sheetValues') - 1
                /\ keyCache' = IF inKeyCol THEN Put(keyCache, rec'.val, row)
                                ELSE keyCache
                /\ RowsOfKey(keyCacheArr', rec'.val) =
                      RowsOfKey(keyCacheArr, rec'.val) \cup
                        (IF inKeyCol /\ dp.MatchAll = "yes" THEN {row} ELSE {})
                /\ \A k \in DOMAIN keyCacheArr :
                      k # rec'.val => (k \in DOMAIN keyCacheArr'
                                        /\ keyCacheArr'[k] = keyCacheArr[k])
                /\ rec'.outcome = "appended" ]_vars

C14_Witness ==
    /\ pc = "dp_rec"
    /\ rec.outcome = "appended"
    /\ rec.key = "k3"
    /\ rec.val = "7"
    /\ TopicCol(dp.Title) = "C"
    /\ DOMAIN keyCache = {"k1", "k2"}
    /\ Len(sheetValues) = 2
    /\ keyCacheMax = 1

\* C15 as stated: reconciling the same record twice in a row leaves the
\* buffer and the caches, the second time, as the first reconcile left them.
C15_SecondReconcileIsNoOp ==
    [][ (ReconcileStep /\ rec'.again) =>
            UNCHANGED <<sheetValues, keyCache, keyCacheArr, keyCacheMax>> ]_vars

\* C15 as amended: the second reconcile is a no-op when the record's key is
\* in the Key-to-Row Cache by then: it was there before the first
\* reconcile, or the first appended the record to the key column with val
\* equal to the key.  A record whose key is still unknown is skipped again
\* or, row-append allowed, appended once more.
C15_SecondReconcileOfCachedKeyIsNoOp ==
    [][ (ReconcileStep /\ rec'.again) =>
            /\ rec'.known <=>
                  \/ rec.known
                  \/ /\ rec.outcome = "appended"
                     /\ TopicCol(dp.Title) = cfg.SheetKeyCol
                     /\ rec'.key = rec'.val
            /\ rec'.known =>
                  /\ UNCHANGED <<sheetValues, keyCache, keyCacheArr, keyCacheMax>>
                  /\ rec'.outcome = "no-op"
            /\ (~rec'.known /\ dp.AddRows = "yes") =>
                  sheetValues' = Append(sheetValues, <<Str(rec'.val)>>)
            /\ (~rec'.known /\ dp.AddRows # "yes") =>
                  UNCHANGED <<sheetValues, keyCache, keyCacheArr, keyCacheMax>> ]_vars

C15_Witness ==
    /\ pc = "dp_rec"
    /\ rec.again
    /\ rec.key = "k3"
    /\ rec.known
    /\ rec.outcome = "no-op"

----------------------------------------------------------------------------
(* Coordinate caches: properties *)

\* The header row as the grid holds it: cell i (0-based), the topics in it
\* and the column of a topic's leftmost cell.
HeaderCell(i) == sheet[Itoa(i)][cfg.SheetTopicRow]

HeaderTopics ==
    {Sprintf(HeaderCell(i)) : i \in {j \in 0 .. NumCols - 1 : HeaderCell(j) # Empty}}

FirstColumnOf(t) ==
    LET at == {i \in 0 .. NumCols - 1 : HeaderCell(i) # Empty /\ Sprintf(HeaderCell(i)) = t}
    IN  Itoa(CHOOSE i \in at : \A j \in at : i <= j)

\* The header row of this datapoint has been scanned.
AfterLetter == pc \in {"dp_row", "dp_cmd", "dp_rec", "dp_persist"}

\* C16: after a caching scan of the header row the Topic-to-Column Cache
\* maps every non-blank header value to the column of its leftmost cell and
\* holds nothing else, no entry for a blank cell; an entry, once made, is
\* never changed or dropped, by a later cell or a later scan.
C16_TopicCacheFirstSeenWins ==
    /\ [](AfterLetter => topicCache = [t \in HeaderTopics |-> FirstColumnOf(t)])
    /\ []("" \notin DOMAIN topicCache)
    /\ [][ \A t \in DOMAIN topicCache :
              t \in DOMAIN topicCache' /\ topicCache'[t] = topicCache[t] ]_vars

C16_Witness ==
    /\ pc = "dp_row"
    /\ di = 2
    /\ HeaderCell(0) = Empty /\ HeaderCell(2) = Empty
    /\ DOMAIN topicCache = {"Jan", "Feb"}
    /\ topicCache["Jan"] = "B"
    /\ topicCache["Feb"] = "D"

\* The key column of the datapoint as the grid holds it: its non-empty
\* rows, the keys in them and the first row of a key.
KeyCells == {r \in Rows : r >= cfg.SheetDataStartRow /\ sheet[KeyColOf(dp)][r] # Empty}

KeysFound == {Sprintf(sheet[KeyColOf(dp)][r]) : r \in KeyCells}

FirstRowOf(k) ==
    LET at == {r \in KeyCells : Sprintf(sheet[KeyColOf(dp)][r]) = k}
    IN  CHOOSE r \in at : \A q \in at : r <= q

\* C17 as stated: after a caching scan of the key column the Key-to-Row
\* Cache maps every key of the column to the row of its first occurrence,
\* and has no entry for an empty cell.
C17_KeyCacheHoldsFirstRows ==
    /\ "" \notin DOMAIN keyCache
    /\ pc = "dp_cmd" =>
          \A k \in KeysFound : k \in DOMAIN keyCache /\ keyCache[k] = FirstRowOf(k)

\* C17 as amended: a caching scan of the key column leaves every entry the
\* cache holds when the scan starts as it is, adds every key of the column
\* that is not in the cache, mapped to the row of its first occurrence, and
\* adds nothing else, no entry for an empty cell.
C17_ScanAddsFirstRowsOfNewKeys ==
    [][ (pc = "dp_row" /\ pc' = "dp_cmd") =>
            /\ \A k \in DOMAIN keyCache :
                  k \in DOMAIN keyCache' /\ keyCache'[k] = keyCache[k]
            /\ DOMAIN keyCache' = DOMAIN keyCache \cup KeysFound
            /\ \A k \in KeysFound \ DOMAIN keyCache : keyCache'[k] = FirstRowOf(k)
            /\ "" \notin DOMAIN keyCache' ]_vars

C17_Witness ==
    /\ pc = "dp_cmd"
    /\ di = 1
    /\ KeyCells = {2, 3, 4}
    /\ sheet[cfg.SheetKeyCol][2] = sheet[cfg.SheetKeyCol][4]
    /\ DOMAIN keyCache = {"k1", "k2"}
    /\ keyCache["k1"] = 2
    /\ keyCache["k2"] = 3

\* C19 as stated: a caching lookup of a topic that is not in the header row
\* gives the no-match sentinel and no error, whatever the header row holds.
C19_AbsentTopicIsNoError ==
    (pc = "dp_letter" /\ dp.Title \notin HeaderTopics) =>
        LET r == cellValueToSheetLetter(sheet, topicCache, dp.Title, TRUE)
        IN  ~r.fatal /\ r.letter \notin Cols

\* C19 as amended: a caching lookup of a topic that is not in the header
\* row gives the no-match sentinel (the empty label) and no error when the
\* header row holds at least one cell; over a header row without any cell
\* the lookup is a fatal error, so no run gets past such a header.
C19_AbsentTopicIsNoErrorUnlessNoHeader ==
    /\ (pc = "dp_letter" /\ dp.Title \notin HeaderTopics) =>
          LET r == cellValueToSheetLetter(sheet, topicCache, dp.Title, TRUE)
          IN  /\ r.fatal <=> HeaderTopics = {}
              /\ ~r.fatal => (r.letter = "" /\ r.letter \notin Cols)
    /\ AfterLetter => HeaderTopics # {}

C19_Witness ==
    /\ pc = "dp_row"
    /\ dp.Title = "Feb"
    /\ HeaderTopics = {"Key", "Jan"}
    /\ "Feb" \notin DOMAIN topicCache

\* The number of times a range was read so far.
ReadsOf(range) == Cardinality({i \in DOMAIN reads : reads[i] = range})

\* C20 as stated: no resolver range (the header row, the key column) is
\* read twice in a run.
C20_ResolverRangesReadOnce ==
    \A i, j \in DOMAIN reads :
        (i < j /\ reads[i] \in {TopicRowRange, KeyColRange(dp)}) => reads[i] # reads[j]

\* The reads of the key-column range made by the row resolver: the code
\* calls it directly after the column resolver, whose read is the header row.
ResolverKeyReads ==
    Cardinality({i \in DOMAIN reads : /\ i > 1
                                       /\ reads[i - 1] = TopicRowRange
                                       /\ reads[i] = KeyColRange(dp)})

\* C20 as amended: the resolvers read the header row and the key column
\* once per datapoint, the key column directly after the header row: while
\* datapoint di is processed each has been read di - 1 or di times, and a
\* run that ends has read each as many times as datapoints are configured.
C20_ResolverRangesReadOncePerDatapoint ==
    LET h == ReadsOf(TopicRowRange)
        k == ResolverKeyReads
    IN  /\ h \in {di - 1, di}
        /\ k \in {di - 1, di}
        /\ k <= h
        /\ \A i \in DOMAIN reads :
              (reads[i] = TopicRowRange /\ i < Len(reads)) => reads[i + 1] = KeyColRange(dp)
        /\ pc \in {"dp_loop", "dp_letter", "done"} => (h = di - 1 /\ k = di - 1)
        /\ pc = "dp_row" => (h = di /\ k = di - 1)
        /\ pc \in {"dp_cmd", "dp_rec", "dp_persist"} => (h = di /\ k = di)
        /\ pc = "done" => (h = cfgDatapoints /\ k = cfgDatapoints)

C20_Witness ==
    /\ pc = "done"
    /\ cfgDatapoints = MaxDP
    /\ ReadsOf(TopicRowRange) = MaxDP
    /\ ResolverKeyReads = MaxDP
    /\ ReadsOf(KeyColRange(dp)) > MaxDP

----------------------------------------------------------------------------
(* Run orchestration: properties *)

\* The persists of datapoint k: the first Update call of each retry loop.
PersistsOf(k) ==
    {j \in DOMAIN updates : /\ updates[j].k = k
                            /\ updates[j].what = "persist"
                            /\ updates[j].attempt = 1}

\* C21: a datapoint the loop is done with has had exactly one persist, the
\* datapoint in progress at most one and the ones to come none, whatever
\* the number of records; every further Update call is a retry, following a
\* failed call of the same datapoint; the callback on a record issues no
\* remote update.
C21_OnePersistPerDatapoint ==
    /\ [](\A k \in 1 .. cfgDatapoints :
            /\ k < di => Cardinality(PersistsOf(k)) = 1
            /\ k = di => Cardinality(PersistsOf(k)) <= 1
            /\ k > di => Cardinality(PersistsOf(k)) = 0)
    /\ [](\A j \in DOMAIN updates :
            /\ updates[j].what = "persist"
            /\ updates[j].attempt > 1 =>
                  /\ updates[j - 1].k = updates[j].k
                  /\ updates[j - 1].attempt = updates[j].attempt - 1
                  /\ updates[j - 1].failed)
    /\ [][ ReconcileStep => updates' = updates ]_vars

C21_Witness ==
    /\ pc = "dp_loop"
    /\ di = 2
    /\ nrec = MaxRecords
    /\ Cardinality(PersistsOf(1)) = 1
    /\ Len(updates) = 3

\* Nothing of generic mode has happened: no datapoint was taken up, no
\* cache was filled, no column was persisted.
GenericUntouched ==
    /\ pc \notin {"dp_loop", "dp_letter", "dp_row", "dp_cmd", "dp_rec", "dp_persist",
                   "panic"}
    /\ di = 1
    /\ dp.Title = ""
    /\ topicCache = EmptyMap
    /\ keyCache = EmptyMap
    /\ sheetValues = <<>>
    /\ \A j \in DOMAIN updates : updates[j].what # "persist"

\* Nothing of legacy mode has happened: the week column was not resolved,
\* no KPI was scraped, no cell was written.
LegacyUntouched ==
    /\ pc \notin {"kpi_resolve", "kpi_loop", "kpi_title", "kpi_value", "kpi_date"}
    /\ ki = 1
    /\ kpi.Title = ""
    /\ dataWeekColLetter = ""
    /\ calls = <<>>
    /\ \A j \in DOMAIN updates : updates[j].what = "persist"

\* C22 as stated: with at least one KPI entry configured the run is a
\* legacy run and nothing of generic mode happens, datapoints configured or
\* not; without a KPI entry the run is a generic run and nothing of legacy
\* mode happens.
C22_LegacyIffEntries ==
    /\ cfgKPI > 0 => GenericUntouched
    /\ cfgKPI <= 0 => LegacyUntouched

\* C22 as amended: the run is a legacy run when the configuration has a
\* list of KPIs, with or without an entry in it, and then nothing of generic
\* mode happens, datapoints configured or not; it is a generic run only
\* when the configuration has no list of KPIs, and then nothing of legacy
\* mode happens.
C22_LegacyIffListPresent ==
    /\ [][ pc = "main" => pc' = IF cfgKPI # -1 THEN "kpi_resolve" ELSE "dp_loop" ]_vars
    /\ [](cfgKPI # -1 => GenericUntouched)
    /\ [](cfgKPI = -1 => LegacyUntouched)
    /\ [](pc # "main" => (cfgKPI # -1 => ~LegacyUntouched \/ pc = "fatal"))

C22_Witness ==
    /\ pc = "done"
    /\ cfgKPI = 0
    /\ cfgDatapoints = MaxDP
    /\ reads = <<TopicRowRange>>
    /\ updates = <<>>
    /\ di = 1

\* C27 as stated: a legacy write that fails is tried again: the process
\* aborts on a failed write only when the attempt before it, on the same
\* cell, had failed too, and a failed write that is not the last one is
\* followed by another attempt at its cell.
C27_LegacyWriteRetried ==
    \A j \in DOMAIN updates :
        (updates[j].what \in DOMAIN WriteRank /\ updates[j].failed) =>
            /\ (j = Len(updates) /\ pc = "fatal") =>
                  /\ j > 1
                  /\ updates[j - 1].k = updates[j].k
                  /\ updates[j - 1].what = updates[j].what
                  /\ updates[j - 1].failed
            /\ j < Len(updates) =>
                  /\ updates[j + 1].k = updates[j].k
                  /\ updates[j + 1].what = updates[j].what

\* C27 as amended: a legacy write is attempted once: no cell of a KPI gets
\* a second Update, and the first Update that fails, whatever its error,
\* is the last remote call of the run.
C27_LegacyWriteNotRetried ==
    /\ \A i, j \in DOMAIN updates :
          (i < j /\ updates[i].what \in DOMAIN WriteRank) =>
              <<updates[i].k, updates[i].what>> # <<updates[j].k, updates[j].what>>
    /\ \A j \in DOMAIN updates :
          (updates[j].what \in DOMAIN WriteRank /\ updates[j].failed) =>
              /\ j = Len(updates)
              /\ pc = "fatal"
              /\ calls[Len(calls)].updErr
              /\ Cardinality({i \in DOMAIN calls :
                                calls[i].k = updates[j].k
                                /\ calls[i].what = updates[j].what}) = 1

\* The value write of the second KPI failed at its first attempt.
C27_Witness ==
    /\ pc = "fatal"
    /\ ki = 2
    /\ Len(updates) >= 4
    /\ updates[Len(updates)].failed
    /\ updates[Len(updates)].what = "kpi_value"
    /\ updates[Len(updates)].k = 2

\* A step in which the command of the current datapoint returned an error:
\* the pass leaves the command without fetching the column.
CommandFailsStep ==
    /\ pc = "dp_cmd"
    /\ dp.Command # ""
    /\ reads' = reads
    /\ pc' # pc

\* C26 as stated: a failing command is logged and the run goes on with the
\* next datapoint, so that every datapoint after it is still processed.
C26_CommandFailureContinues ==
    [][CommandFailsStep => (pc' = "dp_loop" /\ di' = di + 1)]_vars

\* C26 as amended: a failing command ends the run at once: nothing follows
\* the failure, no read and no update, and the loop stays at the datapoint
\* whose command failed.
C26_CommandFailureAborts ==
    /\ [][CommandFailsStep =>
            /\ pc' = "fatal"
            /\ di' = di
            /\ updates' = updates]_vars
    /\ [][pc # "fatal"]_vars

\* The command of the first of several datapoints failed, after its two
\* addresses were resolved.
C26_Witness ==
    /\ pc = "fatal"
    /\ di = 1
    /\ cfgDatapoints = MaxDP
    /\ dp.Command # ""
    /\ keyCache # EmptyMap
    /\ Len(reads) = 2
    /\ updates = <<>>

\* C28: when a datapoint with a command, match-all and row-append unset,
\* ends with a successful persist, the grid holds in the topic column, at
\* the row cached for each key the command emitted, the val of the last
\* record of that key (as the grid shows it), and every other cell of the
\* column from the first data row on is as it was.  The pass ends with the
\* step from the retry loop back to the loop over the datapoints.
C28_DatapointWritesLastValues ==
    [][ (pc = "dp_persist" /\ pc' = "dp_loop" /\ dp.Command # ""
           /\ dp.MatchAll # "yes" /\ dp.AddRows # "yes") =>
          LET col == TopicCol(dp.Title)
              emitted == DOMAIN rec.hits
          IN  \A r \in Rows :
                r >= cfg.SheetDataStartRow =>
                  IF \E key \in emitted : keyCache[key] = r
                    THEN \A key \in emitted :
                           keyCache[key] = r =>
                             Sprintf(sheet'[col][r]) = rec.hits[key]
                    ELSE sheet'[col][r] = sheet[col][r] ]_vars

\* A datapoint is done whose two records of k1 ended with "8": the cell of
\* k1 holds 8 now and the cell below it still holds 7.
C28_Witness ==
    /\ pc = "dp_loop"
    /\ di = 2
    /\ dp.Command # ""
    /\ dp.MatchAll = ""
    /\ dp.AddRows = ""
    /\ nrec = MaxRecords
    /\ DOMAIN rec.hits = {"k1"}
    /\ rec.hits["k1"] = "8"
    /\ keyCache["k1"] = cfg.SheetDataStartRow
    /\ sheet[TopicCol(dp.Title)][cfg.SheetDataStartRow] = Num(8)
    /\ sheet[TopicCol(dp.Title)][cfg.SheetDataStartRow + 1] = Num(7)

\* C29: when the key column has been scanned for a datapoint and its
\* column buffer is about to be fetched, padded and reconciled, the max-row
\* tracker is at least row - dataStartRow for every row the Key-to-Row
\* Cache holds.
C29_TrackerCoversCachedRows ==
    pc = "dp_cmd" =>
        \A key \in DOMAIN keyCache :
            keyCacheMax >= keyCache[key] - cfg.SheetDataStartRow

\* C30: with row-append allowed, the cell appended for a record of an
\* unknown key gets a buffer index above row - dataStartRow of every row
\* the Key-to-Row Cache holds: it lands on the row of no cached key.
C30_AppendLandsBelowCachedRows ==
    [][ (ReconcileStep /\ ~rec'.known /\ dp.AddRows = "yes") =>
            \A key \in DOMAIN keyCache :
                Len(sheetValues') - 1 > keyCache[key] - cfg.SheetDataStartRow ]_vars

\* C32: a datapoint whose title is in no cell of the header row is fatal
\* when its column is resolved: the pass goes no further, and no read and
\* no update is ever issued for a range with an empty column label.
C32_MissingTopicIsFatal ==
    /\ pc \in {"dp_row", "dp_cmd", "dp_rec", "dp_persist"} => TopicCol(dp.Title) # ""
    /\ \A i \in DOMAIN reads : reads[i][2] # ""
    /\ \A j \in DOMAIN updates : updates[j].col # ""

\* C33: every backoff sleep of a persist is followed by another Update
\* call of that persist: when as many sleeps as calls were taken, the retry
\* loop is still running and its counter allows the next call; once the
\* persist is over the sleeps are fewer than the calls.
C33_SleepOnlyBetweenAttempts ==
    /\ sleeps <= tries.n
    /\ (tries.n > 0 /\ sleeps = tries.n) => (pc = "dp_persist" /\ iterations > 0)

\* C37: sending the same buffer for the same range again is safe.  In the
\* persist of the first datapoint of a run, whichever failed Update calls
\* the remote grid applied all the same, the grid is at every moment either
\* as the run found it or as one application of the buffer leaves it, and
\* the call that succeeds leaves it as one application of the buffer to the
\* grid the run found.  The persist gives one outcome however many calls it
\* took: one success, one step on to the next datapoint, and no call of it
\* touches the tally.
C37_ResendingIsSafe ==
    [][ (pc = "dp_persist" /\ di = 1) =>
          LET found == GenericSheet(<<Str("k1"), Str("k2")>>, <<Num(7), Num(7)>>)
              once  == SetCol(found, TopicCol(dp.Title), cfg.SheetDataStartRow,
                              sheetValues)
          IN  /\ sheet \in {found, once}
              /\ sheet' \in {sheet, once}
              /\ tries'.oks <= 1
              /\ tries'.oks = 1 <=> (pc' = "dp_loop" /\ di' = di + 1)
              /\ tries'.oks = 1 => sheet' = once
              /\ tries'.oks = 0 => di' = di
              /\ syncCount' = syncCount ]_vars

\* A persist that succeeded with its third call, after two calls that
\* failed and two sleeps: the topic column holds the buffer, which differs
\* from what the run found in it.
C37_Witness ==
    /\ pc = "dp_loop"
    /\ di = 2
    /\ tries.n = 3
    /\ tries.oks = 1
    /\ sleeps = 2
    /\ sheetValues # <<>>
    /\ sheet # GenericSheet(<<Str("k1"), Str("k2")>>, <<Num(7), Num(7)>>)
    /\ sheet = SetCol(GenericSheet(<<Str("k1"), Str("k2")>>, <<Num(7), Num(7)>>),
                      TopicCol(dp.Title), cfg.SheetDataStartRow, sheetValues)

\* C34: in a run whose datapoints all use the configured key column, once
\* a match-all datapoint has scanned it, the multi-row cache lists for every
\* key exactly the rows of the key column that hold the key, and no row
\* number twice, however many match-all datapoints were processed.
C34_MultiRowCacheListsRowsOnce ==
    LET start == cfg.SheetDataStartRow
        overridden == \E i \in DOMAIN reads :
                          reads[i][1] = "col" /\ reads[i][2] \notin {cfg.SheetKeyCol, TopicCol("Jan")}
        holding(k) == {r \in Rows : r >= start /\ sheet[cfg.SheetKeyCol][r] # Empty
                                     /\ Sprintf(sheet[cfg.SheetKeyCol][r]) = k}
    IN  (~overridden /\ keyCacheArr # EmptyMap /\ pc \in {"dp_cmd", "dp_rec", "dp_persist", "dp_loop", "done"}) =>
            \A k \in Keys :
                /\ RowsOfKey(keyCacheArr, k) = holding(k)
                /\ k \in DOMAIN keyCacheArr =>
                      \A i, j \in DOMAIN keyCacheArr[k] :
                          keyCacheArr[k][i] = keyCacheArr[k][j] => i = j

\* C35: the callback of a datapoint that names its own key column works,
\* for a record whose key that column holds, on the row of the key's first
\* occurrence in that column, whatever datapoints came before.
C35_OwnKeyColumnGivesTheRow ==
    [][ (ReconcileStep /\ dp.KeyCol # "" /\ rec'.key \in KeysFound) =>
            /\ rec'.known
            /\ indexed'[1] + cfg.SheetDataStartRow = FirstRowOf(rec'.key) ]_vars

----------------------------------------------------------------------------
(* Column-letter codec: properties *)

\* C24: the label Itoa gives for an offset n >= 0 is a non-empty string of
\* the letters A-Z, and Atoi gives n back for it without an error; for a
\* negative n the label is the empty string.
C24_CodecRoundTrip ==
    LET OnlyCapitals(t) ==
            \A i \in 1 .. Len(t) : \E k \in 1 .. 26 : Letters[k] = SubSeq(t, i, i)
    IN  codec.op = "Itoa" =>
            /\ (codec.step >= 1 /\ codec.n < 0) => codec.s = ""
            /\ (codec.step >= 1 /\ codec.n >= 0) =>
                  (codec.s # "" /\ OnlyCapitals(codec.s))
            /\ (codec.step = 2 /\ codec.n >= 0) =>
                  (codec.err = "" /\ codec.back = codec.n)

C24_Witness ==
    /\ codec.op = "Itoa"
    /\ codec.step = 2
    /\ codec.n = 18277
    /\ codec.s = "ZZZ"
    /\ codec.err = ""
    /\ codec.back = 18277

\* C25: Atoi gives an error and no number for the empty string and for
\* every string with a character that is not a letter, "A1" among them;
\* for a string of letters it gives, without an error, what it gives for
\* the upper-case form of the string; "a" and "A" both give 0.
C25_DecodeRejectsAndIgnoresCase ==
    LET Alphabetic(t) ==
            \A i \in 1 .. Len(t) : \E k \in 1 .. 26 :
                Letters[k] = SubSeq(t, i, i) \/ LowerLetters[k] = SubSeq(t, i, i)
        Upper(c) ==
            IF \E k \in 1 .. 26 : LowerLetters[k] = c
                THEN Letters[CHOOSE k \in 1 .. 26 : LowerLetters[k] = c]
                ELSE c
        RECURSIVE ToUpper(_)
        ToUpper(t) ==
            IF t = "" THEN "" ELSE Upper(SubSeq(t, 1, 1)) \o ToUpper(SubSeq(t, 2, Len(t)))
        up == Atoi(ToUpper(codec.s))
    IN  (codec.op = "Atoi" /\ codec.step = 1) =>
            /\ (codec.s = "" \/ ~Alphabetic(codec.s)) =>
                  (codec.err # "" /\ codec.back = 0)
            /\ (codec.s # "" /\ Alphabetic(codec.s)) =>
                  /\ codec.err = ""
                  /\ up.err = ""
                  /\ codec.back = up.n
                  /\ codec.back >= 0
            /\ codec.s \in {"a", "A"} => (codec.err = "" /\ codec.back = 0)
            /\ codec.s = "A1" => codec.err # ""

C25_Witness ==
    /\ codec.op = "Atoi"
    /\ codec.step = 1
    /\ codec.s = "aZ"
    /\ codec.err = ""
    /\ codec.back = 51

====
